---- MODULE Spec2Model ----
(***************************************************************************)
(* Digital-Twins session pipeline: text reply + synthesized speech over a  *)
(* WebSocket connection.                                                   *)
(*   - services/ttsService.js   generateTTS and its two synthesis paths    *)
(*   - llmService.js            getLLMResponse / callLLM                   *)
(*   - ws/handlers.js           handleTwinMessage                          *)
(*   - server.js                connection registry, direct/queued turn,   *)
(*                              handleLLMResponse / handleTTSResponse      *)
(*   - services/messageQueue.js publish / subscribe over Redis Pub/Sub     *)
(*   - workers                  LLMWorker, TTSWorker                       *)
(***************************************************************************)
EXTENDS Integers, Sequences, FiniteSets, TLC

\* ------------------------------------------------------------------ bounds
MaxBlocks == 2          \* longest provider stream, in blocks
HTMTurns == 2           \* calls of handleTwinMessage on the one connection
SrvTurns == 1           \* client messages handled by the server
SrvConns == 2           \* WebSocket connections opened on the server
TestConnsN == 3         \* WebSocket connections opened on the test server
MaxClock == 3           \* clock readings of the test server's process
MaxCalls == 3           \* calls of the history cache's functions
FanWorkersN == 2       \* LLM worker processes
FanRequests == 2       \* requests published on LLM_REQUEST
MaxRows == 3           \* rows of one conversation in the messages table
MaxNow == 6             \* minutes the history cache's clock runs

\* ------------------------------------------------------------- JS helpers
\* A destructured field of an object: present or undefined.
Has(obj, f) == f \in DOMAIN obj

\* if (x) on a destructured boolean field: undefined is falsy.
TruthyBool(obj, f) == Has(obj, f) /\ obj[f]

\* if (x) on a destructured object field: undefined is falsy, objects truthy.
TruthyObj(obj, f) == Has(obj, f)

RECURSIVE SumLen(_)
SumLen(s) == IF s = <<>> THEN 0 ELSE Head(s) + SumLen(Tail(s))

\* ------------------------------------------------------------ ttsService
\* A provider block is modelled by its byte length; Base64 tags the block.
Base64(block) == <<"b64", block>>

Base64Decode(str) == str[2]

commonVoices ==
  <<"henry", "sarah", "david", "alice", "george", "emma", "john", "jane",
    "a882153d-42fa-4f24-940e-f1c9f7853b12">>

\* Strings of the model that match the UUID pattern.
UUIDShaped == {"a882153d-42fa-4f24-940e-f1c9f7853b12",
               "0f8fad5b-d9cb-469f-a165-70867728950e"}

isValidUUID(str) == str \in UUIDShaped

InCommonVoices(v) == \E i \in 1..Len(commonVoices) : commonVoices[i] = v

getBestVoiceId(agentId) ==
  IF agentId # "" /\ (InCommonVoices(agentId) \/ isValidUUID(agentId))
  THEN agentId
  ELSE "henry"

\* estimateDuration: bytes / 16000 seconds, toFixed(2): in hundredths.
estimateDuration(audioBytes) == (audioBytes * 100 + 8000) \div 16000

\* The voice-fallback loop: indices of commonVoices requested after a 404,
\* in order, up to and including the first the provider accepts.
AltIndices(voiceId) == {i \in 1..Len(commonVoices) : commonVoices[i] # voiceId}

FirstOkAlt(voiceId, okVoices) ==
  LET ok == {i \in AltIndices(voiceId) : commonVoices[i] \in okVoices}
  IN IF ok = {} THEN 0 ELSE CHOOSE i \in ok : \A j \in ok : i <= j

\* Response finally held in `response` after the initial request and the
\* fallback loop: [ok, voice].
ResolveResponse(voiceId, first, okVoices) ==
  IF first = 404
  THEN LET k == FirstOkAlt(voiceId, okVoices)
       IN IF k = 0 THEN [ok |-> FALSE, voice |-> voiceId]
                   ELSE [ok |-> TRUE, voice |-> commonVoices[k]]
  ELSE [ok |-> first = 200, voice |-> voiceId]

\* w: what the outside world does during one generateTTS call.
\*   agentId   configured voice (TTS_AGENT_ID)
\*   sFirst    status of the first streaming request (200 / 404 / 500)
\*   cFirst    status of the first complete-buffer request
\*   okVoices  voices the provider accepts on a fallback request
\*   hasReader response.body supports getReader
\*   blocks    blocks the stream delivers before it ends
\*   readFail  0, or the number of the reader.read() call that rejects
\*   cJson     complete response is a JSON envelope
\*   cAudio    <<>> (no audio_data) or <<payload>>
generateStreamingTTS(sessionId, w) ==
  LET voiceId == getBestVoiceId(w.agentId)
      resp == ResolveResponse(voiceId, w.sFirst, w.okVoices)
      n == Len(w.blocks)
  IN IF ~resp.ok THEN [ok |-> FALSE, err |-> "Streaming failed"]
     ELSE IF ~w.hasReader
       THEN [ok |-> FALSE, err |-> "Response body doesn't support streaming"]
     ELSE IF w.readFail \in 1..(n + 1)
       THEN [ok |-> FALSE, err |-> "read failed"]
     ELSE [ok |-> TRUE,
           sessionId |-> sessionId,
           voice |-> resp.voice,
           chunks |-> [i \in 1..n |-> Base64(w.blocks[i])],
           totalBytes |-> SumLen(w.blocks),
           estimatedDuration |-> estimateDuration(SumLen(w.blocks)),
           isStreaming |-> TRUE]

generateCompleteTTS(sessionId, w) ==
  LET voiceId == getBestVoiceId(w.agentId)
      resp == ResolveResponse(voiceId, w.cFirst, w.okVoices)
  IN IF ~resp.ok THEN [ok |-> FALSE, err |-> "Complete TTS failed"]
     ELSE IF w.cJson /\ w.cAudio = <<>>
       THEN [ok |-> FALSE, err |-> "No audio_data in response"]
     ELSE LET payload == IF w.cAudio = <<>> THEN 0 ELSE w.cAudio[1]
              audioBuffer == IF w.cJson THEN Base64Decode(Base64(payload))
                                        ELSE payload
          IN [ok |-> TRUE,
              sessionId |-> sessionId,
              voice |-> resp.voice,
              audioUrl |-> <<"data:audio/mp3;base64", Base64(audioBuffer)>>,
              totalBytes |-> audioBuffer,
              estimatedDuration |-> estimateDuration(audioBuffer),
              duration |-> estimateDuration(audioBuffer),
              chunks |-> <<Base64(audioBuffer)>>,
              isStreaming |-> FALSE]

generateTTS(digitalTwinId, w) ==
  LET s == generateStreamingTTS(digitalTwinId, w)
  IN IF s.ok THEN s
     ELSE LET c == generateCompleteTTS(digitalTwinId, w)
          IN IF c.ok THEN c
             ELSE [ok |-> FALSE, err |-> "TTS generation failed"]

\* Provider behaviours considered for one synthesis call.  The k-th block of
\* a stream is k bytes long, so that blocks are told apart.
Streams == {[i \in 1..k |-> i] : k \in 0..MaxBlocks}

TTSWorlds ==
  [agentId : {"henry"},
   sFirst : {200, 404, 500},
   cFirst : {200, 500},
   okVoices : {{}},
   hasReader : BOOLEAN,
   blocks : Streams,
   readFail : 0..1,
   cJson : BOOLEAN,
   cAudio : {<<>>, <<2>>}]

TwinIds == {"warren-buffett"}

\* Everything generateTTS can return for a twin.
TTSResults(digitalTwinId) == {generateTTS(digitalTwinId, w) : w \in TTSWorlds}

\* One call of generateTTS as the server processes see it: its result, with
\* the configured AGENT_ID and the voice_id of its first provider request.
TTSCalls(digitalTwinId) ==
  {[agentId |-> w.agentId,
    voice |-> getBestVoiceId(w.agentId),
    result |-> generateTTS(digitalTwinId, w)] : w \in TTSWorlds}

\* ------------------------------------------------------------ llmService
Replies == {"Sono Warren Buffett"}

Prompts == {"", "chi sei?"}

Entry(role, content) == [role |-> role, content |-> content]

\* The history handed to handleTwinMessage: one earlier turn.
Histories == {<<Entry("user", "ciao"), Entry("assistant", "salve")>>}

\* What the provider does with one chat-completion call.
LLMOutcomes == {[ok |-> FALSE]} \cup [ok : {TRUE}, reply : Replies]

\* Mutant: a provider error rejects the promise instead of being answered.
getLLMResponse_ProviderThrows(digitalTwinId, systemPrompt, history, newMessage, provider) ==
  IF digitalTwinId = "" \/ newMessage = "" \/ ~provider.ok
  THEN [threw |-> TRUE, message |-> "Missing required parameters"]
  ELSE [threw |-> FALSE,
        reply |-> provider.reply,
        newHistory |-> history \o <<Entry("user", newMessage),
                                    Entry("assistant", provider.reply)>>]

\* getLLMResponse: threw = the promise rejects (validation); a provider
\* error is caught inside and answered with the fixed fallback reply.
getLLMResponse(digitalTwinId, systemPrompt, history, newMessage, provider) ==
  IF digitalTwinId = "" \/ newMessage = ""
  THEN [threw |-> TRUE, message |-> "Missing required parameters"]
  ELSE IF provider.ok
  THEN [threw |-> FALSE,
        reply |-> provider.reply,
        newHistory |-> history \o <<Entry("user", newMessage),
                                    Entry("assistant", provider.reply)>>]
  ELSE [threw |-> FALSE,
        reply |-> "Non so rispondere",
        newHistory |-> history]

callLLM(digitalTwinId, prompt, history, provider) ==
  getLLMResponse(digitalTwinId, "", history, prompt, provider)

\* ------------------------------------------------------------- variables
VARIABLES
  htm,            \* handleTwinMessage: per call, its position and its data
  htmSent,        \* messages sent on the connection handed to handleTwinMessage
  conn,           \* server: per WebSocket connection, its state and sessionId
  activeSessions, \* server: the Map sessionId -> connection
  llmListeners,   \* listeners registered on LLM_RESPONSE, in order
  ttsListeners,   \* listeners registered on TTS_RESPONSE, in order
  isConnected,    \* messageQueue.isConnected of the server process
  srv,            \* server: per client message, its position and its data
  llmReq,         \* LLM requests delivered to the LLM worker, not yet answered
  ttsReq,         \* TTS requests delivered to the TTS worker, not yet answered
  inbox,          \* responses delivered to the server's subscriber, in order
  wsSent,         \* server: messages sent per connection
  testClock,      \* test server: the reading Date.now() gives
  testConn,       \* test server: per connection, its state and sessionId
  testSessions,   \* test server: the Map sessionId -> connection
  syn,            \* one call of generateTTS: its position and its locals
  l1Cache,        \* redisClient: the tier-1 Map cacheKey -> {data, timestamp}
  redisStore,     \* redisClient: what tier-2 (Redis) holds, cacheKey -> JSON
  memoryStore,    \* redisClient: the last-resort Map digitalTwinId -> history
  redisAvailable, \* redisClient: the flag set by the first 'ready' event
  clock,          \* redisClient: the reading Date.now() gives, in minutes
  cop,            \* redisClient: the call in progress and its locals
  clog,           \* redisClient: the calls that have returned, in order
  sets,           \* redisClient: two overlapping setHistory calls, pool index
  hb,             \* server: the history built from the messages table
  fan,            \* LLM_REQUEST: its subscribed workers and their deliveries
  mq              \* one worker process: its messageQueue and its start()

htmVars == <<htm, htmSent>>

srvVars == <<conn, activeSessions, llmListeners, ttsListeners, isConnected,
             srv, llmReq, ttsReq, inbox, wsSent>>

testVars == <<testClock, testConn, testSessions>>

cacheVars == <<l1Cache, redisStore, memoryStore, redisAvailable, clock, cop,
               clog>>

\* State of the further programs, which the programs above never touch.
extVars == <<sets, hb, fan, mq>>

nonRaceVars == <<htmVars, srvVars, testVars, syn, hb, fan, mq>>

nonHBVars == <<htmVars, srvVars, testVars, syn, cacheVars, sets, fan, mq>>

nonFanVars == <<htmVars, srvVars, testVars, syn, cacheVars, sets, hb, mq>>

nonMQVars == <<htmVars, srvVars, testVars, syn, cacheVars, sets, hb, fan>>

\* What an action of one program leaves alone: the other programs' state.
nonHTMVars == <<srvVars, testVars, syn, cacheVars, extVars>>

nonSrvVars == <<htmVars, testVars, syn, cacheVars, extVars>>

nonTestVars == <<htmVars, srvVars, syn, cacheVars, extVars>>

nonSynVars == <<htmVars, srvVars, testVars, cacheVars, extVars>>

nonCacheVars == <<htmVars, srvVars, testVars, syn, extVars>>

nonCacheSrvVars == <<htmVars, testVars, syn, extVars>>

vars == <<htm, htmSent, conn, activeSessions, llmListeners, ttsListeners,
          isConnected, srv, llmReq, ttsReq, inbox, wsSent,
          testClock, testConn, testSessions, syn,
          l1Cache, redisStore, memoryStore, redisAvailable, clock, cop, clog,
          sets, hb, fan, mq>>

\* ------------------------------------------------------ ws/handlers.js
HTMCalls == 1..HTMTurns

HTMIdle ==
  [pc |-> "idle", twin |-> "", prompt |-> "", history |-> <<>>,
   llm |-> [ok |-> FALSE], threw |-> FALSE, reply |-> "",
   tts |-> "none", ttsText |-> <<>>, ttsRes |-> [ok |-> FALSE],
   ret |-> <<>>]

HTMInit ==
  /\ htm = [t \in HTMCalls |-> HTMIdle]
  /\ htmSent = <<>>

\* Messages of handleTwinMessage; `turn` is a ghost tag naming the call.
HTMTwinResponse(t, twin, textReply) ==
  [type |-> "twin_response", turn |-> t, digitalTwinId |-> twin,
   text |-> textReply, tts_will_follow |-> TRUE]

HTMTTSStarted(t, twin, textReply, r) ==
  [type |-> "tts_started", turn |-> t, session_id |-> r.sessionId,
   digitalTwinId |-> twin, text |-> textReply, voice |-> r.voice,
   provider |-> "speechify", format |-> "mp3",
   estimated_duration |-> r.estimatedDuration]

\* Mutant: chunk_index counts from 1.
HTMAudioChunks_OneBased(t, r) ==
  [i \in 1..Len(r.chunks) |->
     [type |-> "audio_chunk", turn |-> t, session_id |-> r.sessionId,
      chunk_index |-> i, audio_base64 |-> r.chunks[i],
      total_chunks_expected |-> Len(r.chunks), format |-> "mp3",
      is_final_chunk |-> (i = Len(r.chunks) - 1)]]

HTMAudioChunks(t, r) ==
  [i \in 1..Len(r.chunks) |->
     [type |-> "audio_chunk", turn |-> t, session_id |-> r.sessionId,
      chunk_index |-> i - 1, audio_base64 |-> r.chunks[i],
      total_chunks_expected |-> Len(r.chunks), format |-> "mp3",
      is_final_chunk |-> (i - 1 = Len(r.chunks) - 1)]]

HTMTTSComplete(t, twin, r) ==
  [type |-> "tts_complete", turn |-> t, session_id |-> r.sessionId,
   digitalTwinId |-> twin, total_chunks |-> Len(r.chunks),
   total_audio_bytes |-> r.totalBytes,
   total_duration |-> IF Has(r, "duration") THEN r.duration
                                            ELSE r.estimatedDuration,
   hasAudioUrl |-> Has(r, "audioUrl")]

HTMError(t, twin, code, stage) ==
  [type |-> "error", turn |-> t, error_code |-> code,
   digitalTwinId |-> twin, stage |-> stage]

\* handleTwinMessage is called: it runs up to `await callLLM(...)`.
HTMCall(t) ==
  /\ htm[t].pc = "idle"
  /\ \E twin \in TwinIds, prompt \in Prompts, history \in Histories :
       htm' = [htm EXCEPT ![t] = [@ EXCEPT !.pc = "await_llm",
                                           !.twin = twin,
                                           !.prompt = prompt,
                                           !.history = history]]
  /\ UNCHANGED htmSent
  /\ UNCHANGED nonHTMVars

\* Mutant: the handler awaits the generateTTS promise before returning.
HTMAfterTTSStart_Awaited == "await_tts"

\* Position of the handler once it has started generateTTS: the promise is
\* not awaited, the handler returns { newHistory }.
HTMAfterTTSStart == "returned"

\* Mutant: tts_complete is sent before the chunks.
HTMThen_CompleteFirst(t, twin, textReply, r) ==
  <<HTMTTSStarted(t, twin, textReply, r), HTMTTSComplete(t, twin, r)>>
    \o (IF Len(r.chunks) > 0 THEN HTMAudioChunks(t, r) ELSE <<>>)

\* Mutant: tts_complete is left to a later callback and never sent here.
HTMThen_CompleteLater(t, twin, textReply, r) ==
  <<HTMTTSStarted(t, twin, textReply, r)>>
    \o (IF Len(r.chunks) > 0 THEN HTMAudioChunks(t, r) ELSE <<>>)

\* Mutant: the synthesis failure is only logged.
HTMCatch_Silent(t, twin) == <<>>

\* The .then / .catch callbacks of the generateTTS promise.
HTMThen(t, twin, textReply, r) ==
  <<HTMTTSStarted(t, twin, textReply, r)>>
    \o (IF Len(r.chunks) > 0 THEN HTMAudioChunks(t, r) ELSE <<>>)
    \o <<HTMTTSComplete(t, twin, r)>>

HTMCatch(t, twin) == <<HTMError(t, twin, "TTS_ERROR", "tts_synthesis")>>

\* callLLM settles and the handler resumes: the text is sent, synthesis is
\* started on textReply (ttsText records the text handed to generateTTS),
\* the handler returns; or the catch block reports the failure.
HTMResume(t) ==
  /\ htm[t].pc = "await_llm"
  /\ \E provider \in LLMOutcomes :
       LET h == htm[t]
           r == callLLM(h.twin, h.prompt, h.history, provider)
       IN IF r.threw
          THEN /\ htmSent' = Append(htmSent,
                   HTMError(t, h.twin, "DIGITAL_TWIN_ERROR", "twin_response"))
               /\ htm' = [htm EXCEPT ![t] = [@ EXCEPT !.pc = "returned",
                                                   !.llm = provider,
                                                   !.threw = TRUE]]
          ELSE /\ htmSent' = Append(htmSent,
                                    HTMTwinResponse(t, h.twin, r.reply))
               /\ htm' = [htm EXCEPT ![t] = [@ EXCEPT !.pc = HTMAfterTTSStart,
                                                   !.llm = provider,
                                                   !.reply = r.reply,
                                                   !.tts = "pending",
                                                   !.ttsText = <<r.reply>>,
                                                   !.ret = r.newHistory]]
  /\ UNCHANGED nonHTMVars

\* The generateTTS promise settles: .then or .catch runs to completion.
HTMTTSSettle(t) ==
  /\ htm[t].tts = "pending"
  /\ \E r \in TTSResults(htm[t].twin) :
       /\ htmSent' = htmSent \o (IF r.ok
                                 THEN HTMThen(t, htm[t].twin, htm[t].reply, r)
                                 ELSE HTMCatch(t, htm[t].twin))
       /\ htm' = [htm EXCEPT ![t] = [@ EXCEPT !.tts = "settled",
                                           !.ttsRes = r]]
  /\ UNCHANGED nonHTMVars

HTMNext == \E t \in HTMCalls : HTMCall(t) \/ HTMResume(t) \/ HTMTTSSettle(t)

\* ------------------------------------------------- services/redisClient.js
\* Time is counted in minutes.  An absent Map entry, a missing Redis key and
\* a null are the empty sequence <<>>, a present value v is <<v>>.
L1_CACHE_TTL == 5

CacheIds == TwinIds

\* `history:${digitalTwinId}`
cacheKey(digitalTwinId) == <<"history:", digitalTwinId>>

CacheKeys == {cacheKey(id) : id \in CacheIds}

\* JSON.stringify / JSON.parse of a history.
JSONStringify(history) == <<"json", history>>

JSONParse(json) == json[2]

\* Histories a caller hands to setHistory.
CacheHistories ==
  {<<>>,
   <<Entry("user", "chi sei?"), Entry("assistant", "Sono Warren Buffett")>>}

\* Mutant: an entry is still fresh when its age equals the window.
getFromL1Cache_Inclusive(l1, key, t) ==
  IF l1[key] # <<>> /\ t - l1[key][1].timestamp <= L1_CACHE_TTL
  THEN <<l1[key][1].data>>
  ELSE <<>>

\* getFromL1Cache at time t: <<data>> on a hit, <<>> (null) otherwise.
getFromL1Cache(l1, key, t) ==
  IF l1[key] # <<>> /\ t - l1[key][1].timestamp < L1_CACHE_TTL
  THEN <<l1[key][1].data>>
  ELSE <<>>

setL1Cache(l1, key, data, t) ==
  [l1 EXCEPT ![key] = <<[data |-> data, timestamp |-> t]>>]

\* Mutant: the last-resort store is asked under a key it never holds.
MemoryGet_WrongKey(mem, digitalTwinId) == <<>>

\* memoryStore.get(digitalTwinId) || []
MemoryGet(mem, digitalTwinId) ==
  IF mem[digitalTwinId] # <<>> THEN mem[digitalTwinId][1] ELSE <<>>

CopIdle ==
  [pc |-> "idle", kind |-> "none", id |-> "", arg |-> <<>>, at |-> 0,
   l1Before |-> <<>>]

CacheInit ==
  /\ l1Cache = [k \in CacheKeys |-> <<>>]
  /\ redisStore = [k \in CacheKeys |-> <<>>]
  /\ memoryStore = [id \in CacheIds |-> <<>>]
  /\ redisAvailable = FALSE
  /\ clock = 0
  /\ cop = CopIdle
  /\ clog = <<>>

\* What is recorded of a call when it returns: the call, its result, whether
\* it was a tier-1 hit, what the tier-2 operation did ("none": not issued,
\* "ok", "failed"), and whether the last-resort store was read.
Returned(c, ret, l1Hit, tier2, memRead) ==
  [kind |-> c.kind, id |-> c.id, arg |-> c.arg, at |-> c.at,
   l1Before |-> c.l1Before, ret |-> ret, l1Hit |-> l1Hit, tier2 |-> tier2,
   memRead |-> memRead]

\* The call of the caller, as it stands when the function is entered.
Called(kind, id, arg) ==
  [pc |-> "idle", kind |-> kind, id |-> id, arg |-> arg, at |-> clock,
   l1Before |-> l1Cache[cacheKey(id)]]

\* Step 3 of getHistory: the last-resort store, copied into tier-1.
GetFromMemory(c, tier2) ==
  LET memoryData == MemoryGet(memoryStore, c.id)
  IN /\ l1Cache' = setL1Cache(l1Cache, cacheKey(c.id), memoryData, clock)
     /\ clog' = Append(clog, Returned(c, memoryData, FALSE, tier2, TRUE))
     /\ cop' = CopIdle
     /\ UNCHANGED <<redisStore, memoryStore>>

\* Mutant: a tier-1 hit renews the entry's timestamp.
GetFromL1_Touch(c, l1Data) ==
  /\ clog' = Append(clog, Returned(c, l1Data, TRUE, "none", FALSE))
  /\ l1Cache' = setL1Cache(l1Cache, cacheKey(c.id), l1Data, clock)
  /\ UNCHANGED <<redisStore, memoryStore, cop>>

\* Step 1 of getHistory on a hit: the tier-1 data is returned.
GetFromL1(c, l1Data) ==
  /\ clog' = Append(clog, Returned(c, l1Data, TRUE, "none", FALSE))
  /\ UNCHANGED <<l1Cache, redisStore, memoryStore, cop>>

\* getHistory(digitalTwinId) is called and runs up to client.get, or returns.
CacheGetHistory(id) ==
  /\ cop.pc = "idle"
  /\ Len(clog) < MaxCalls
  /\ LET c == Called("get", id, <<>>)
         l1Data == getFromL1Cache(l1Cache, cacheKey(id), clock)
     IN IF l1Data # <<>>
        THEN GetFromL1(c, l1Data[1])
        ELSE IF redisAvailable
        THEN /\ cop' = [c EXCEPT !.pc = "get"]
             /\ UNCHANGED <<l1Cache, redisStore, memoryStore, clog>>
        ELSE GetFromMemory(c, "none")
  /\ UNCHANGED <<redisAvailable, clock>>
  /\ UNCHANGED nonCacheVars

\* client.get settles: a stored value is parsed, copied into tier-1 and
\* returned; a missing key or a rejection goes on to the last-resort store.
CacheRedisGet ==
  /\ cop.pc = "get"
  /\ \E answered \in BOOLEAN :
       LET key == cacheKey(cop.id)
           historyJson == redisStore[key]
       IN IF answered /\ historyJson # <<>>
          THEN LET parsed == JSONParse(historyJson[1])
               IN /\ l1Cache' = setL1Cache(l1Cache, key, parsed, clock)
                  /\ clog' = Append(clog,
                                    Returned(cop, parsed, FALSE, "ok", FALSE))
                  /\ cop' = CopIdle
                  /\ UNCHANGED <<redisStore, memoryStore>>
          ELSE GetFromMemory(cop, IF answered THEN "ok" ELSE "failed")
  /\ UNCHANGED <<redisAvailable, clock>>
  /\ UNCHANGED nonCacheVars

\* Mutant: the last-resort store is written only when tier-2 was not.
SetMemory_OnFailure(c, tier2) ==
  /\ memoryStore' = IF tier2 = "ok" THEN memoryStore
                     ELSE [memoryStore EXCEPT ![c.id] = <<c.arg>>]
  /\ clog' = Append(clog, Returned(c, <<>>, FALSE, tier2, FALSE))
  /\ cop' = CopIdle

\* Step 3 of setHistory: the last-resort store is written, the call returns.
SetMemory(c, tier2) ==
  /\ memoryStore' = [memoryStore EXCEPT ![c.id] = <<c.arg>>]
  /\ clog' = Append(clog, Returned(c, <<>>, FALSE, tier2, FALSE))
  /\ cop' = CopIdle

\* setHistory(digitalTwinId, history) with an array is called: tier-1 is
\* written; it runs up to client.set, or to its end.
CacheSetHistory(id, history) ==
  /\ cop.pc = "idle"
  /\ Len(clog) < MaxCalls
  /\ LET c == Called("set", id, history)
     IN /\ l1Cache' = setL1Cache(l1Cache, cacheKey(id), history, clock)
        /\ IF redisAvailable
           THEN /\ cop' = [c EXCEPT !.pc = "set"]
                /\ UNCHANGED <<memoryStore, clog>>
           ELSE SetMemory(c, "none")
  /\ UNCHANGED <<redisStore, redisAvailable, clock>>
  /\ UNCHANGED nonCacheVars

\* client.set settles: stored, or rejected (caught and logged).
CacheRedisSet ==
  /\ cop.pc = "set"
  /\ \E answered \in BOOLEAN :
       /\ redisStore' = IF answered
                        THEN [redisStore EXCEPT ![cacheKey(cop.id)] =
                                <<JSONStringify(cop.arg)>>]
                        ELSE redisStore
       /\ SetMemory(cop, IF answered THEN "ok" ELSE "failed")
  /\ UNCHANGED <<l1Cache, redisAvailable, clock>>
  /\ UNCHANGED nonCacheVars

\* The end of deleteHistory: the last-resort entry is removed.
DeleteMemory(c, tier2) ==
  /\ memoryStore' = [memoryStore EXCEPT ![c.id] = <<>>]
  /\ clog' = Append(clog, Returned(c, <<>>, FALSE, tier2, FALSE))
  /\ cop' = CopIdle

\* deleteHistory(digitalTwinId) is called: the tier-1 entry is removed; it
\* runs up to client.del, or to its end.
CacheDeleteHistory(id) ==
  /\ cop.pc = "idle"
  /\ Len(clog) < MaxCalls
  /\ LET c == Called("delete", id, <<>>)
     IN /\ l1Cache' = [l1Cache EXCEPT ![cacheKey(id)] = <<>>]
        /\ IF redisAvailable
           THEN /\ cop' = [c EXCEPT !.pc = "del"]
                /\ UNCHANGED <<memoryStore, clog>>
           ELSE DeleteMemory(c, "none")
  /\ UNCHANGED <<redisStore, redisAvailable, clock>>
  /\ UNCHANGED nonCacheVars

\* client.del settles: removed, or rejected (caught and logged).
CacheRedisDel ==
  /\ cop.pc = "del"
  /\ \E answered \in BOOLEAN :
       /\ redisStore' = IF answered
                        THEN [redisStore EXCEPT ![cacheKey(cop.id)] = <<>>]
                        ELSE redisStore
       /\ DeleteMemory(cop, IF answered THEN "ok" ELSE "failed")
  /\ UNCHANGED <<l1Cache, redisAvailable, clock>>
  /\ UNCHANGED nonCacheVars

\* client.on('ready') of a pool client.
CacheReady ==
  /\ ~redisAvailable
  /\ redisAvailable' = TRUE
  /\ UNCHANGED <<l1Cache, redisStore, memoryStore, clock, cop, clog>>
  /\ UNCHANGED nonCacheVars

\* A minute passes.
CacheTick ==
  /\ clock < MaxNow
  /\ clock' = clock + 1
  /\ UNCHANGED <<l1Cache, redisStore, memoryStore, redisAvailable, cop, clog>>
  /\ UNCHANGED nonCacheVars

\* A key written with EX reaches its expiry in Redis.
CacheRedisExpire(key) ==
  /\ redisStore[key] # <<>>
  /\ redisStore' = [redisStore EXCEPT ![key] = <<>>]
  /\ UNCHANGED <<l1Cache, memoryStore, redisAvailable, clock, cop, clog>>
  /\ UNCHANGED nonCacheVars

CacheNext ==
  \/ \E id \in CacheIds : CacheGetHistory(id) \/ CacheDeleteHistory(id)
  \/ \E id \in CacheIds, history \in CacheHistories :
       CacheSetHistory(id, history)
  \/ CacheRedisGet
  \/ CacheRedisSet
  \/ CacheRedisDel
  \/ CacheReady
  \/ CacheTick
  \/ \E key \in CacheKeys : CacheRedisExpire(key)

\* ------------------------------- services/redisClient.js: overlapping calls
\* Two setHistory calls of one process for the same twin, the second entered
\* while the first may still be suspended on client.set.  A call is "idle",
\* "sent" (suspended, its SET on the way to Redis), "applied" or "failed"
\* (Redis has executed the SET, or the command was lost; the promise has not
\* settled yet) and "done".  client is the pool client getClient returned;
\* tier2 records what became of the SET ("none": not issued).
POOL_SIZE == 5

RaceCalls == 1..2

RaceId == "warren-buffett"

RaceHistories ==
  {<<Entry("user", "chi sei?"), Entry("assistant", "Sono Warren Buffett")>>,
   <<Entry("user", "ciao"), Entry("assistant", "salve")>>}

RaceIdle == [pc |-> "idle", arg |-> <<>>, client |-> -1, tier2 |-> "none"]

RaceInit == sets = [call |-> [i \in RaceCalls |-> RaceIdle], index |-> 0]

\* Commands of one pool client are executed, and answered, in the order sent.
RaceFirstOn(i, pcs) ==
  \A j \in RaceCalls :
    (j < i /\ sets.call[j].client = sets.call[i].client) =>
      sets.call[j].pc \notin pcs

\* setHistory(RaceId, history) is entered: tier-1 is written; with tier-2
\* ready getClient() picks the next pool client and the call suspends on
\* client.set, otherwise the last-resort store is written and it returns.
RaceSetHistory(i, history) ==
  /\ sets.call[i].pc = "idle"
  /\ \A j \in RaceCalls : j < i => sets.call[j].pc # "idle"
  /\ l1Cache' = setL1Cache(l1Cache, cacheKey(RaceId), history, clock)
  /\ IF redisAvailable
     THEN /\ sets' = [call |-> [sets.call EXCEPT ![i] =
                                  [pc |-> "sent", arg |-> history,
                                   client |-> sets.index,
                                   tier2 |-> "none"]],
                      index |-> (sets.index + 1) % POOL_SIZE]
          /\ UNCHANGED memoryStore
     ELSE /\ sets' = [sets EXCEPT !.call[i] =
                        [pc |-> "done", arg |-> history, client |-> -1,
                         tier2 |-> "none"]]
          /\ memoryStore' = [memoryStore EXCEPT ![RaceId] = <<history>>]
  /\ UNCHANGED <<redisStore, redisAvailable, clock, cop, clog>>
  /\ UNCHANGED nonRaceVars

\* Redis executes the SET of call i, or the command is lost with its
\* connection.
RaceRedisSet(i) ==
  /\ sets.call[i].pc = "sent"
  /\ RaceFirstOn(i, {"sent"})
  /\ \E executed \in BOOLEAN :
       /\ redisStore' = IF executed
                        THEN [redisStore EXCEPT ![cacheKey(RaceId)] =
                                <<JSONStringify(sets.call[i].arg)>>]
                        ELSE redisStore
       /\ sets' = [sets EXCEPT !.call[i] =
                     [@ EXCEPT !.pc = IF executed THEN "applied"
                                                  ELSE "failed",
                               !.tier2 = IF executed THEN "ok"
                                                     ELSE "failed"]]
  /\ UNCHANGED <<l1Cache, memoryStore, redisAvailable, clock, cop, clog>>
  /\ UNCHANGED nonRaceVars

\* The client.set promise of call i settles (a rejection is caught and
\* logged): the last-resort store is written and the call returns.
RaceResume(i) ==
  /\ sets.call[i].pc \in {"applied", "failed"}
  /\ RaceFirstOn(i, {"sent", "applied", "failed"})
  /\ memoryStore' = [memoryStore EXCEPT ![RaceId] = <<sets.call[i].arg>>]
  /\ sets' = [sets EXCEPT !.call[i].pc = "done"]
  /\ UNCHANGED <<l1Cache, redisStore, redisAvailable, clock, cop, clog>>
  /\ UNCHANGED nonRaceVars

RaceNext ==
  \/ \E i \in RaceCalls, history \in RaceHistories : RaceSetHistory(i, history)
  \/ \E i \in RaceCalls : RaceRedisSet(i) \/ RaceResume(i)
  \/ CacheReady
  \/ CacheTick

\* ------------------- server.js / conversationRepository.js: history build
\* The rows of one conversation in the messages table, in insertion order;
\* created_at of a row is its position.  The `at` of a history entry is a
\* ghost tag: the created_at of the row it was made from.
Reverse(s) == [i \in 1..Len(s) |-> s[Len(s) + 1 - i]]

HBRoles == {"user", "assistant"}

HBContents == {"ciao", "salve"}

HBRow(role, content, at) == [role |-> role, content |-> content, created_at |-> at]

HBTables ==
  UNION {{[i \in 1..n |-> HBRow(r[i], c[i], i)] :
            r \in [1..n -> HBRoles], c \in [1..n -> HBContents]} :
         n \in 0..MaxRows}

\* SELECT ... ORDER BY created_at DESC LIMIT limit OFFSET offset.
HBQuery(table, limit, offset) ==
  LET desc == Reverse(table)
      last == IF offset + limit < Len(desc) THEN offset + limit ELSE Len(desc)
  IN SubSeq(desc, offset + 1, last)

\* ConversationRepository.getMessages: result.rows.reverse().
getMessages(table, limit, offset) == Reverse(HBQuery(table, limit, offset))

\* The limit the message handler passes to getMessages.
HistoryLimit == 20

\* messages.map(msg => ({ role, content })).reverse()
BuildHistory(messages) ==
  Reverse([i \in 1..Len(messages) |->
             [role |-> messages[i].role, content |-> messages[i].content,
              at |-> messages[i].created_at]])

HBIdle == [pc |-> "idle", table |-> <<>>, messages |-> <<>>,
           currentHistory |-> <<>>]

HBInit == hb = HBIdle

\* getOrCreate returns the conversation, whose rows are table.
HBGetOrCreate ==
  /\ hb.pc = "idle"
  /\ \E table \in HBTables : hb' = [hb EXCEPT !.pc = "conversation",
                                              !.table = table]
  /\ UNCHANGED nonHBVars

\* getMessages(conversation.id, 20) returns.
HBGetMessages ==
  /\ hb.pc = "conversation"
  /\ hb' = [hb EXCEPT !.pc = "messages",
                      !.messages = getMessages(hb.table, HistoryLimit, 0)]
  /\ UNCHANGED nonHBVars

\* currentHistory is built from messages.
HBBuildHistory ==
  /\ hb.pc = "messages"
  /\ hb' = [hb EXCEPT !.pc = "built",
                      !.currentHistory = BuildHistory(hb.messages)]
  /\ UNCHANGED nonHBVars

HBNext == HBGetOrCreate \/ HBGetMessages \/ HBBuildHistory

\* ---------------------------------------------------------------- server.js
Conns == 1..SrvConns

SrvMsgs == 1..SrvTurns

NoConn == 0

\* `ws_${Date.now()}_${Math.random()...}`: the identifiers one clock reading
\* and two random draws can give.
SessionIds == {"ws_1_a", "ws_1_b"}

\* Identifiers are opaque: the first connection's is called ws_1_a, a later
\* connection may draw the same one or another.
NewSessionIds(c) == IF c = 1 THEN {"ws_1_a"} ELSE SessionIds

\* Histories the persistence layer or the cache hands to the message handler.
SrvHistories == {<<>>}

\* tts_options of the client payload: absent, false, or an object.
TTSOptions == {"undefined", "false", "object"}

SrvIdle ==
  [pc |-> "idle", conn |-> NoConn, sid |-> "", twin |-> "", prompt |-> "",
   ttsOpt |-> "undefined", history |-> <<>>, mode |-> "none",
   llmDone |-> FALSE, llmOk |-> FALSE, llm |-> [ok |-> FALSE],
   reply |-> "", ttsText |-> <<>>,
   llmGot |-> <<>>, llmConn |-> FALSE, llmPub |-> <<>>,
   ttsAgent |-> "", ttsVoice |-> <<>>, ttsGot |-> <<>>, ttsConn |-> FALSE, ttsPub |-> <<>>,
   ttsDone |-> FALSE, ttsBeforeLLM |-> FALSE, ttsRes |-> [ok |-> FALSE]]

SrvInit ==
  /\ conn = [c \in Conns |-> [state |-> "new", sid |-> ""]]
  /\ activeSessions = [s \in SessionIds |-> NoConn]
  /\ llmListeners = <<>>
  /\ ttsListeners = <<>>
  /\ isConnected = TRUE
  /\ srv = [t \in SrvMsgs |-> SrvIdle]
  /\ llmReq = {}
  /\ ttsReq = {}
  /\ inbox = <<>>
  /\ wsSent = [c \in Conns |-> <<>>]

\* ws.send on connection c: a closed socket delivers nothing.
Send(sent, c, msgs) ==
  IF conn[c].state = "open" THEN [sent EXCEPT ![c] = @ \o msgs] ELSE sent

\* A field read by destructuring.
Field(obj, f) == IF Has(obj, f) THEN obj[f] ELSE "undefined"

\* wss.on("connection"): register the session, then subscribeToResponses,
\* which throws when the queue is not connected and otherwise registers the
\* LLM_RESPONSE listener and suspends on the first subscribe.
SrvConnect(c) ==
  /\ conn[c].state = "new"
  /\ \A d \in Conns : d < c => conn[d].state # "new"
  /\ \E sid \in NewSessionIds(c) :
       /\ conn' = [conn EXCEPT ![c] =
                     [state |-> "open", sid |-> sid]]
       /\ activeSessions' = [activeSessions EXCEPT ![sid] = c]
  /\ llmListeners' = IF isConnected THEN Append(llmListeners, c)
                                    ELSE llmListeners
  /\ UNCHANGED <<ttsListeners, isConnected, srv, llmReq, ttsReq, inbox, wsSent>>
  /\ UNCHANGED nonSrvVars

\* subscribeToResponses resumes: the TTS_RESPONSE listener is registered.
SrvSubscribeTTS(c) ==
  /\ \E i \in 1..Len(llmListeners) : llmListeners[i] = c
  /\ ~\E i \in 1..Len(ttsListeners) : ttsListeners[i] = c
  /\ ttsListeners' = Append(ttsListeners, c)
  /\ UNCHANGED <<conn, activeSessions, llmListeners, isConnected, srv, llmReq,
                 ttsReq, inbox, wsSent>>
  /\ UNCHANGED nonSrvVars

\* ws.on("error"): the session is removed from the Map; the socket is no
\* longer open and its 'close' event is still to come.
SrvError(c) ==
  /\ conn[c].state = "open"
  /\ conn' = [conn EXCEPT ![c].state = "errored"]
  /\ activeSessions' = [activeSessions EXCEPT ![conn[c].sid] = NoConn]
  /\ UNCHANGED <<llmListeners, ttsListeners, isConnected, srv, llmReq, ttsReq,
                 inbox, wsSent>>
  /\ UNCHANGED nonSrvVars

\* ws.on("close"), on an open socket or after its 'error': the session is
\* removed from the Map (again).
SrvClose(c) ==
  /\ conn[c].state \in {"open", "errored"}
  /\ conn' = [conn EXCEPT ![c].state = "closed"]
  /\ activeSessions' = [activeSessions EXCEPT ![conn[c].sid] = NoConn]
  /\ UNCHANGED <<llmListeners, ttsListeners, isConnected, srv, llmReq, ttsReq,
                 inbox, wsSent>>
  /\ UNCHANGED nonSrvVars

\* Messages of the server; turn, addressee, viaQueue, workerSuccess and
\* requestId are ghost tags: the client message, the session the content was
\* produced for, what the worker reported and the request it answered.
SrvErrorMsg(t, sid, code, ghost) ==
  [type |-> "error", turn |-> t, error_code |-> code, sessionId |-> sid,
   addressee |-> ghost.addressee, viaQueue |-> ghost.viaQueue,
   workerSuccess |-> ghost.workerSuccess,
   requestId |-> ghost.requestId]

SrvTwinResponse(t, twin, reply, sid, willFollow, ghost) ==
  [type |-> "twin_response", turn |-> t, digitalTwinId |-> twin,
   reply |-> reply, sessionId |-> sid, tts_will_follow |-> willFollow,
   addressee |-> ghost.addressee, viaQueue |-> ghost.viaQueue,
   workerSuccess |-> ghost.workerSuccess,
   requestId |-> ghost.requestId]

SrvTTSStarted(t, twin, r, ghost) ==
  [type |-> "tts_started", turn |-> t, sessionId |-> r.sessionId,
   digitalTwinId |-> twin, voice |-> r.voice, format |-> "mp3",
   estimatedDuration |-> r.estimatedDuration,
   addressee |-> ghost.addressee, viaQueue |-> ghost.viaQueue,
   workerSuccess |-> ghost.workerSuccess,
   requestId |-> ghost.requestId]

SrvAudioChunks(t, sid, chunks, ghost) ==
  [i \in 1..Len(chunks) |->
     [type |-> "audio_chunk", turn |-> t, sessionId |-> sid,
      chunkIndex |-> i - 1, audioBase64 |-> chunks[i],
      totalChunks |-> Len(chunks), format |-> "mp3",
      isFinalChunk |-> (i - 1 = Len(chunks) - 1),
      addressee |-> ghost.addressee, viaQueue |-> ghost.viaQueue,
      workerSuccess |-> ghost.workerSuccess,
   requestId |-> ghost.requestId]]

SrvTTSComplete(t, twin, r, ghost) ==
  [type |-> "tts_complete", turn |-> t, sessionId |-> r.sessionId,
   digitalTwinId |-> twin, totalChunks |-> Len(r.chunks),
   totalAudioBytes |-> r.totalBytes, totalDuration |-> r.estimatedDuration,
   addressee |-> ghost.addressee, viaQueue |-> ghost.viaQueue,
   workerSuccess |-> ghost.workerSuccess,
   requestId |-> ghost.requestId]

DirectGhost(sid) ==
  [addressee |-> sid, viaQueue |-> FALSE, workerSuccess |-> FALSE,
   requestId |-> <<>>]

\* --------------------------------------------------- services/messageQueue.js
\* requestId: `${sessionId}_${Date.now()}_${random}`; the client message the
\* request was published for stands for the clock reading and the draw.
RequestId(sid, t, kind) == <<sid, t, kind>>

\* The message publishLLMRequest puts on LLM_REQUEST.
LLMRequestMsg(sid, t, data) ==
  [sessionId |-> sid, type |-> "llm_request",
   data |-> [digitalTwinId |-> data.digitalTwinId, prompt |-> data.prompt,
             history |-> data.history,
             requestId |-> RequestId(sid, t, "llm")]]

\* The message publishTTSRequest puts on TTS_REQUEST.
TTSRequestMsg(sid, t, data) ==
  [sessionId |-> sid, type |-> "tts_request",
   data |-> [digitalTwinId |-> data.digitalTwinId, text |-> data.text,
             voiceId |-> data.voiceId, waitForLLM |-> data.waitForLLM,
             requestId |-> RequestId(sid, t, "tts")]]

\* The message publishLLMResponse / publishTTSResponse puts on the response
\* channel: the worker's data is nested under `data`.
LLMResponseMsg(sid, data) ==
  [sessionId |-> sid, type |-> "llm_response", data |-> data]

TTSResponseMsg(sid, data) ==
  [sessionId |-> sid, type |-> "tts_response", data |-> data]

\* Redis Pub/Sub hands a published response to the server's subscriber only
\* while it is subscribed to the channel (some listener is registered).
Deliver(box, listeners, msg) ==
  IF listeners # <<>> THEN Append(box, msg) ELSE box

\* 'error' on the publisher or the subscriber client.
MQError ==
  /\ isConnected
  /\ isConnected' = FALSE
  /\ UNCHANGED <<conn, activeSessions, llmListeners, ttsListeners, srv, llmReq,
                 ttsReq, inbox, wsSent>>
  /\ UNCHANGED nonSrvVars

\* 'connect' on the subscriber client.
MQConnect ==
  /\ ~isConnected
  /\ isConnected' = TRUE
  /\ UNCHANGED <<conn, activeSessions, llmListeners, ttsListeners, srv, llmReq,
                 ttsReq, inbox, wsSent>>
  /\ UNCHANGED nonSrvVars

\* ------------------------------------------------- server.js: ws.on("message")
PayloadKinds == {"valid", "badjson", "noprompt"}

\* Mutant: the outer catch reports the error twice.
SrvOuterCatch_Twice(t, c) ==
  LET m == SrvErrorMsg(t, conn[c].sid, "MESSAGE_PROCESSING_ERROR",
                       DirectGhost(conn[c].sid))
  IN <<m, m>>

\* The outer catch of the message handler.
SrvOuterCatch(t, c) ==
  <<SrvErrorMsg(t, conn[c].sid, "MESSAGE_PROCESSING_ERROR",
                DirectGhost(conn[c].sid))>>

\* A client message arrives: parsed; a payload that does not parse or has no
\* prompt ends in the outer catch, otherwise the handler suspends on the
\* persistence calls.
SrvMessage(t, c) ==
  /\ srv[t].pc = "idle"
  /\ \A u \in SrvMsgs : u < t => srv[u].pc # "idle"
  /\ conn[c].state = "open"
  /\ \E kind \in PayloadKinds, twin \in TwinIds, prompt \in Prompts,
        opt \in TTSOptions :
       IF kind = "valid"
       THEN /\ srv' = [srv EXCEPT ![t] =
                         [@ EXCEPT !.pc = "load", !.conn = c,
                                   !.sid = conn[c].sid, !.twin = twin,
                                   !.prompt = prompt, !.ttsOpt = opt]]
            /\ wsSent' = wsSent
       ELSE /\ srv' = [srv EXCEPT ![t] =
                         [@ EXCEPT !.pc = "done", !.conn = c,
                                   !.sid = conn[c].sid, !.mode = "rejected"]]
            /\ wsSent' = Send(wsSent, c, SrvOuterCatch(t, c))
  /\ UNCHANGED <<conn, activeSessions, llmListeners, ttsListeners, isConnected,
                 llmReq, ttsReq, inbox>>
  /\ UNCHANGED nonSrvVars

\* getHistory(digitalTwinId) as the server's handler runs it while tier-2 is
\* not ready or tier-1 has the entry (no tier-2 read is issued): the history
\* returned and tier-1 afterwards.
SrvGetHistory(digitalTwinId) ==
  LET l1Data == getFromL1Cache(l1Cache, cacheKey(digitalTwinId), clock)
      memoryData == MemoryGet(memoryStore, digitalTwinId)
  IN IF l1Data # <<>>
     THEN [history |-> l1Data[1], l1 |-> l1Cache]
     ELSE [history |-> memoryData,
           l1 |-> setL1Cache(l1Cache, cacheKey(digitalTwinId), memoryData,
                             clock)]

\* getOrCreate / getMessages / addMessage settle.  All succeed: queued mode,
\* publishLLMRequest runs up to its publish.  One fails: direct mode with the
\* history getHistory gives, callLLM is started.  The server's runs are those
\* in which tier-2 is not ready when getHistory needs it.
SrvLoadHistory(t) ==
  /\ srv[t].pc = "load"
  /\ \E dbOk \in BOOLEAN, history \in SrvHistories :
       LET c == srv[t].conn
           data == [digitalTwinId |-> srv[t].twin, prompt |-> srv[t].prompt,
                    history |-> history]
           got == SrvGetHistory(srv[t].twin)
       IN IF ~dbOk
          THEN /\ ~redisAvailable \/ got.l1 = l1Cache
               /\ srv' = [srv EXCEPT ![t] =
                            [@ EXCEPT !.pc = "direct_llm", !.mode = "direct",
                                      !.history = got.history]]
               /\ l1Cache' = got.l1
               /\ UNCHANGED <<llmReq, wsSent>>
          ELSE IF ~isConnected
          THEN /\ srv' = [srv EXCEPT ![t] =
                            [@ EXCEPT !.pc = "done", !.mode = "rejected",
                                      !.history = history]]
               /\ wsSent' = Send(wsSent, c, SrvOuterCatch(t, c))
               /\ UNCHANGED <<llmReq, l1Cache>>
          ELSE /\ srv' = [srv EXCEPT ![t] =
                            [@ EXCEPT !.pc = "published_llm",
                                      !.mode = "queued",
                                      !.history = history]]
               /\ llmReq' = llmReq \cup {LLMRequestMsg(srv[t].sid, t, data)}
               /\ UNCHANGED <<wsSent, l1Cache>>
  /\ UNCHANGED <<conn, activeSessions, llmListeners, ttsListeners, isConnected,
                 ttsReq, inbox>>
  /\ UNCHANGED <<redisStore, memoryStore, redisAvailable, clock, cop, clog>>
  /\ UNCHANGED nonCacheSrvVars

\* tts_options?.voice || null for the tts_options a client can send.
RequestedVoice(ttsOpt) == IF ttsOpt = "object" THEN "sarah" ELSE "null"

\* publishLLMRequest has returned: the TTS request is published unless
\* tts_options === false.
SrvPublishTTS(t) ==
  /\ srv[t].pc = "published_llm"
  /\ LET c == srv[t].conn
         data == [digitalTwinId |-> srv[t].twin, text |-> srv[t].prompt,
                  voiceId |-> RequestedVoice(srv[t].ttsOpt),
                  waitForLLM |-> TRUE]
     IN IF srv[t].ttsOpt = "false"
        THEN /\ srv' = [srv EXCEPT ![t].pc = "done"]
             /\ UNCHANGED <<ttsReq, wsSent>>
        ELSE IF ~isConnected
        THEN /\ srv' = [srv EXCEPT ![t].pc = "done"]
             /\ wsSent' = Send(wsSent, c, SrvOuterCatch(t, c))
             /\ UNCHANGED ttsReq
        ELSE /\ srv' = [srv EXCEPT ![t].pc = "done"]
             /\ ttsReq' = ttsReq \cup {TTSRequestMsg(srv[t].sid, t, data)}
             /\ UNCHANGED wsSent
  /\ UNCHANGED <<conn, activeSessions, llmListeners, ttsListeners, isConnected,
                 llmReq, inbox>>
  /\ UNCHANGED nonSrvVars

\* Direct mode: callLLM settles; the text is sent and, unless
\* tts_options === false, generateTTS is started on the prompt and awaited.
SrvDirectLLM(t) ==
  /\ srv[t].pc = "direct_llm"
  /\ \E provider \in LLMOutcomes :
       LET c == srv[t].conn
           r == callLLM(srv[t].twin, srv[t].prompt, srv[t].history, provider)
       IN IF r.threw
          THEN /\ srv' = [srv EXCEPT ![t] =
                            [@ EXCEPT !.pc = "done", !.llmDone = TRUE,
                                      !.llm = provider]]
               /\ wsSent' = Send(wsSent, c, SrvOuterCatch(t, c))
          ELSE /\ srv' = [srv EXCEPT ![t] =
                            [@ EXCEPT !.pc = IF srv[t].ttsOpt # "false"
                                             THEN "direct_tts" ELSE "done",
                                      !.llmDone = TRUE, !.llmOk = TRUE,
                                      !.llm = provider, !.reply = r.reply,
                                      !.ttsText = IF srv[t].ttsOpt # "false"
                                                  THEN <<srv[t].prompt>>
                                                  ELSE <<>>]]
               /\ wsSent' = Send(wsSent, c,
                    <<SrvTwinResponse(t, srv[t].twin, r.reply, srv[t].sid,
                                      srv[t].ttsOpt # "false",
                                      DirectGhost(srv[t].sid))>>)
  /\ UNCHANGED <<conn, activeSessions, llmListeners, ttsListeners, isConnected,
                 llmReq, ttsReq, inbox>>
  /\ UNCHANGED nonSrvVars

\* What direct mode sends once generateTTS has settled.
SrvDirectTTSSends(t, r) ==
  IF r.ok
  THEN SrvAudioChunks(t, srv[t].sid, r.chunks, DirectGhost(srv[t].sid))
  ELSE <<>>

\* Direct mode: generateTTS settles.
SrvDirectTTS(t) ==
  /\ srv[t].pc = "direct_tts"
  /\ \E call \in TTSCalls(srv[t].twin) :
       LET r == call.result
       IN /\ srv' = [srv EXCEPT ![t] =
                       [@ EXCEPT !.pc = "done", !.ttsDone = TRUE,
                                 !.ttsRes = r, !.ttsAgent = call.agentId,
                                 !.ttsVoice = <<call.voice>>]]
          /\ wsSent' = Send(wsSent, srv[t].conn, SrvDirectTTSSends(t, r))
  /\ UNCHANGED <<conn, activeSessions, llmListeners, ttsListeners, isConnected,
                 llmReq, ttsReq, inbox>>
  /\ UNCHANGED nonSrvVars

\* --------------------------------------------------------------- workers
\* publishLLMResponse / publishTTSResponse in the worker's process: throws
\* before anything is published when its messageQueue is not connected.  The
\* responses a worker's handler gets published: the publish of the try block,
\* or of the catch block, reaches the channel only when connected; after a
\* throw in the try block the catch block's publish throws as well.
WorkerPublished(connected, msg) == IF connected THEN <<msg>> ELSE <<>>

\* The data LLMWorker.handleLLMRequest publishes for request data d once
\* callLLM has settled with r: from the try block, or from the catch block.
LLMWorkerData(d, r) ==
  IF r.threw
  THEN [requestId |-> d.requestId, digitalTwinId |-> d.digitalTwinId,
        error |-> r.message, success |-> FALSE]
  ELSE [requestId |-> d.requestId, digitalTwinId |-> d.digitalTwinId,
        reply |-> r.reply, newHistory |-> r.newHistory,
        conversationId |-> "null", success |-> TRUE]

\* The data TTSWorker.handleTTSRequest publishes for request data d once
\* generateTTS has settled with r.
TTSWorkerData(d, r) ==
  IF r.ok
  THEN [requestId |-> d.requestId, digitalTwinId |-> d.digitalTwinId,
        ttsResult |-> [sessionId |-> r.sessionId,
                       voice |-> r.voice,
                       chunks |-> r.chunks,
                       totalBytes |-> r.totalBytes,
                       estimatedDuration |-> r.estimatedDuration,
                       isStreaming |-> r.isStreaming],
        success |-> TRUE]
  ELSE [requestId |-> d.requestId, digitalTwinId |-> d.digitalTwinId,
        error |-> r.err, success |-> FALSE]

RECURSIVE DeliverAll(_, _, _)
DeliverAll(box, listeners, msgs) ==
  IF msgs = <<>> THEN box
  ELSE DeliverAll(Deliver(box, listeners, Head(msgs)), listeners, Tail(msgs))

\* LLMWorker.handleLLMRequest on one delivered request: callLLM, then the
\* response is published (success: true, or success: false from the catch).
\* wConnected is messageQueue.isConnected of the worker's process when it
\* publishes.  llmGot, llmConn and llmPub record the request, the flag and
\* what was published.
LLMWorkerHandle ==
  \E req \in llmReq, provider \in LLMOutcomes, wConnected \in BOOLEAN :
    LET d == req.data
        t == d.requestId[2]
        r == callLLM(d.digitalTwinId, d.prompt, d.history, provider)
        pub == WorkerPublished(wConnected,
                               LLMResponseMsg(req.sessionId, LLMWorkerData(d, r)))
    IN /\ llmReq' = llmReq \ {req}
       /\ inbox' = DeliverAll(inbox, llmListeners, pub)
       /\ srv' = [srv EXCEPT ![t] = [@ EXCEPT !.llmDone = TRUE,
                                              !.llmOk = ~r.threw,
                                              !.llm = provider,
                                              !.reply = IF r.threw THEN ""
                                                        ELSE r.reply,
                                              !.llmGot = <<req>>,
                                              !.llmConn = wConnected,
                                              !.llmPub = pub]]
       /\ UNCHANGED <<conn, activeSessions, llmListeners, ttsListeners,
                      isConnected, ttsReq, wsSent>>
       /\ UNCHANGED nonSrvVars

\* TTSWorker.handleTTSRequest on one delivered request: generateTTS on the
\* request's text, then the response is published.
TTSWorkerHandle ==
  \E req \in ttsReq, wConnected \in BOOLEAN :
    \E call \in TTSCalls(req.data.digitalTwinId) :
      LET d == req.data
          r == call.result
          t == d.requestId[2]
          pub == WorkerPublished(wConnected,
                                 TTSResponseMsg(req.sessionId,
                                                TTSWorkerData(d, r)))
      IN /\ ttsReq' = ttsReq \ {req}
         /\ inbox' = DeliverAll(inbox, ttsListeners, pub)
         /\ srv' = [srv EXCEPT ![t] =
                      [@ EXCEPT !.ttsDone = TRUE, !.ttsRes = r,
                                !.ttsText = <<d.text>>,
                                !.ttsAgent = call.agentId,
                                !.ttsVoice = <<call.voice>>,
                                !.ttsBeforeLLM = ~(srv[t].llmDone
                                                   /\ srv[t].llmOk),
                                !.ttsGot = <<req>>,
                                !.ttsConn = wConnected,
                                !.ttsPub = pub]]
         /\ UNCHANGED <<conn, activeSessions, llmListeners, ttsListeners,
                        isConnected, llmReq, wsSent>>
         /\ UNCHANGED nonSrvVars

\* ------------------------------------------- server.js: response handlers
\* Ghost tags of a message sent on behalf of a broker response.
QueueGhost(msg) ==
  [addressee |-> msg.sessionId, viaQueue |-> TRUE,
   workerSuccess |-> msg.data.success, requestId |-> msg.data.requestId]

\* handleLLMResponse(sessionId, responseData): responseData is the object
\* the subscriber parsed from the channel; the fields are destructured from
\* it.  Returns the sent logs after the handler.
handleLLMResponse(sent, sessionId, responseData) ==
  LET c == activeSessions[sessionId]
      t == responseData.data.requestId[2]
      g == QueueGhost(responseData)
  IN IF c = NoConn THEN sent
     ELSE IF TruthyBool(responseData, "success")
     THEN Send(sent, c,
            <<SrvTwinResponse(t, Field(responseData, "digitalTwinId"),
                              Field(responseData, "reply"), sessionId,
                              TRUE, g)>>)
     ELSE Send(sent, c, <<SrvErrorMsg(t, sessionId, "LLM_PROCESSING_ERROR", g)>>)

\* handleTTSResponse(sessionId, responseData).
handleTTSResponse(sent, sessionId, responseData) ==
  LET c == activeSessions[sessionId]
      t == responseData.data.requestId[2]
      g == QueueGhost(responseData)
  IN IF c = NoConn THEN sent
     ELSE IF TruthyBool(responseData, "success")
             /\ TruthyObj(responseData, "ttsResult")
     THEN LET ttsResult == responseData.ttsResult
              twin == Field(responseData, "digitalTwinId")
          IN Send(sent, c,
               <<SrvTTSStarted(t, twin, ttsResult, g)>>
               \o (IF Len(ttsResult.chunks) > 0
                   THEN SrvAudioChunks(t, ttsResult.sessionId,
                                       ttsResult.chunks, g)
                   ELSE <<>>)
               \o <<SrvTTSComplete(t, twin, ttsResult, g)>>)
     ELSE Send(sent, c, <<SrvErrorMsg(t, sessionId, "TTS_PROCESSING_ERROR", g)>>)

\* The subscriber calls every listener registered on the channel, in
\* registration order; the listener of connection c is the closure
\* (responseData) => handleXResponse(sessionId of c, responseData).
RECURSIVE CallListeners(_, _, _)
CallListeners(sent, listeners, msg) ==
  IF listeners = <<>> THEN sent
  ELSE LET sid == conn[Head(listeners)].sid
           next == IF msg.type = "llm_response"
                   THEN handleLLMResponse(sent, sid, msg)
                   ELSE handleTTSResponse(sent, sid, msg)
       IN CallListeners(next, Tail(listeners), msg)

\* The setHistory calls of handleLLMResponse for msg, one per listener whose
\* session is live and whose success branch runs, in listener order:
\* setHistory(digitalTwinId, newHistory) of the destructured fields; a
\* newHistory that is not an array makes setHistory return at once.
RECURSIVE HistoryWrites(_, _)
HistoryWrites(listeners, msg) ==
  IF listeners = <<>> THEN <<>>
  ELSE LET sid == conn[Head(listeners)].sid
           here == IF /\ activeSessions[sid] # NoConn
                      /\ TruthyBool(msg, "success")
                      /\ Has(msg, "newHistory")
                   THEN <<[id |-> Field(msg, "digitalTwinId"),
                           history |-> msg.newHistory]>>
                   ELSE <<>>
       IN here \o HistoryWrites(Tail(listeners), msg)

\* setHistory while tier-2 is not ready: tier-1 and the last-resort store
\* after the writes.
RECURSIVE WriteL1(_, _)
WriteL1(l1, writes) ==
  IF writes = <<>> THEN l1
  ELSE WriteL1(setL1Cache(l1, cacheKey(Head(writes).id),
                          Head(writes).history, clock),
               Tail(writes))

RECURSIVE WriteMemory(_, _)
WriteMemory(mem, writes) ==
  IF writes = <<>> THEN mem
  ELSE WriteMemory([mem EXCEPT ![Head(writes).id] = <<Head(writes).history>>],
                   Tail(writes))

\* The server's subscriber receives the next response of its stream.
SrvDeliver ==
  /\ inbox # <<>>
  /\ LET msg == Head(inbox)
         writes == IF msg.type = "llm_response"
                   THEN HistoryWrites(llmListeners, msg) ELSE <<>>
     IN /\ wsSent' = CallListeners(wsSent,
                                   IF msg.type = "llm_response"
                                   THEN llmListeners ELSE ttsListeners,
                                   msg)
        /\ writes # <<>> => ~redisAvailable
        /\ l1Cache' = WriteL1(l1Cache, writes)
        /\ memoryStore' = WriteMemory(memoryStore, writes)
  /\ inbox' = Tail(inbox)
  /\ UNCHANGED <<conn, activeSessions, llmListeners, ttsListeners, isConnected,
                 srv, llmReq, ttsReq>>
  /\ UNCHANGED <<redisStore, redisAvailable, clock, cop, clog>>
  /\ UNCHANGED nonCacheSrvVars

SrvNext ==
  \/ \E c \in Conns :
       SrvConnect(c) \/ SrvSubscribeTTS(c) \/ SrvError(c) \/ SrvClose(c)
  \/ \E t \in SrvMsgs, c \in Conns : SrvMessage(t, c)
  \/ \E t \in SrvMsgs :
       SrvLoadHistory(t) \/ SrvPublishTTS(t) \/ SrvDirectLLM(t) \/ SrvDirectTTS(t)
  \/ LLMWorkerHandle
  \/ TTSWorkerHandle
  \/ SrvDeliver
  \/ MQError
  \/ MQConnect

\* ------------------------------------------- unnamed/part_002: test server
TestConns == 1..TestConnsN

TestClockReadings == 1..MaxClock

\* `test_${Date.now()}`
TestSessionId(now) == <<"test", now>>

TestSessionIds == {TestSessionId(now) : now \in TestClockReadings}

TestInit ==
  /\ testClock = 1
  /\ testConn = [c \in TestConns |-> [state |-> "new", sid |-> <<>>]]
  /\ testSessions = [s \in TestSessionIds |-> NoConn]

\* The clock of the test server's process moves on.
TestTick ==
  /\ testClock < MaxClock
  /\ testClock' = testClock + 1
  /\ UNCHANGED <<testConn, testSessions>>
  /\ UNCHANGED nonTestVars

\* wss.on("connection") of the test server: the identifier is the clock
\* reading alone; the session is put in the Map.
TestConnect(c) ==
  /\ testConn[c].state = "new"
  /\ \A d \in TestConns : d < c => testConn[d].state # "new"
  /\ LET sessionId == TestSessionId(testClock)
     IN /\ testConn' = [testConn EXCEPT ![c] =
                          [state |-> "open", sid |-> sessionId]]
        /\ testSessions' = [testSessions EXCEPT ![sessionId] = c]
  /\ UNCHANGED testClock
  /\ UNCHANGED nonTestVars

\* ws.on("close") of the test server.
TestClose(c) ==
  /\ testConn[c].state = "open"
  /\ testConn' = [testConn EXCEPT ![c].state = "closed"]
  /\ testSessions' = [testSessions EXCEPT ![testConn[c].sid] = NoConn]
  /\ UNCHANGED testClock
  /\ UNCHANGED nonTestVars

TestNext == TestTick \/ \E c \in TestConns : TestConnect(c) \/ TestClose(c)

\* ------------------------- services/ttsService.js: generateTTS step by step
\* One call of generateTTS, from await to await.  Locals of the code keep
\* their names (voiceId, chunks, totalBytes); i is the position of the
\* for-of loop over commonVoices.  reqs, sReqs, sChunks, sOk and cOk are
\* records of what happened: the voice of every provider request of the
\* current attempt, the requests and the chunks of the streaming attempt
\* once it was aborted, and how each attempt ended.
SynAgentIds == {"robot", "jane", "0f8fad5b-d9cb-469f-a165-70867728950e"}

SynOkVoices ==
  {{}, {"sarah"}, {"sarah", "jane"}, {"a882153d-42fa-4f24-940e-f1c9f7853b12"}}

\* Byte length of the complete-buffer payload: unlike every streamed block.
SynPayload == 9

SynWorlds ==
  [agentId : SynAgentIds,
   sFirst : {200, 404, 500},
   cFirst : {200, 404, 500},
   okVoices : SynOkVoices,
   hasReader : BOOLEAN,
   blocks : Streams,
   readFail : 0..(MaxBlocks + 1),
   cJson : BOOLEAN,
   cAudio : {<<>>, <<SynPayload>>}]

SynIdle ==
  [pc |-> "idle", w |-> <<>>, sessionId |-> "", path |-> "none",
   voiceId |-> "", i |-> 0, reqs |-> <<>>, sReqs |-> <<>>,
   chunks |-> <<>>, totalBytes |-> 0, sChunks |-> <<>>,
   sOk |-> "none", cOk |-> "none", result |-> [ok |-> FALSE]]

SynInit == syn = SynIdle

\* generateTTS is called: generateStreamingTTS runs up to its first fetch.
SynStart ==
  /\ syn.pc = "idle"
  /\ \E w \in SynWorlds, twin \in TwinIds :
       LET voiceId == getBestVoiceId(w.agentId)
       IN syn' = [syn EXCEPT !.pc = "s_fetch", !.w = w, !.sessionId = twin,
                             !.path = "stream", !.voiceId = voiceId,
                             !.reqs = <<voiceId>>]
  /\ UNCHANGED nonSynVars

\* The outer catch of generateTTS: 'TTS generation failed'.
SynFail(s) ==
  [s EXCEPT !.pc = "done", !.cOk = "failed",
            !.result = [ok |-> FALSE, err |-> "TTS generation failed"]]

\* Mutant: the streaming error is rethrown, the complete path is not tried.
SynOnStreamError_Rethrow(s) ==
  [s EXCEPT !.pc = "done", !.sOk = "failed", !.sReqs = s.reqs,
            !.sChunks = s.chunks,
            !.result = [ok |-> FALSE, err |-> "TTS generation failed"]]

\* catch (streamError) of generateTTS: generateCompleteTTS is called and
\* runs up to its first fetch; the locals of the streaming call are gone.
SynOnStreamError(s) ==
  LET voiceId == getBestVoiceId(s.w.agentId)
  IN [s EXCEPT !.pc = "c_fetch", !.path = "complete", !.voiceId = voiceId,
               !.i = 0, !.sOk = "failed", !.sReqs = s.reqs,
               !.sChunks = s.chunks, !.reqs = <<voiceId>>,
               !.chunks = <<>>, !.totalBytes = 0]

\* Mutant: the loop does not skip the voice already tried.
SynSkip_Never(voice, voiceId) == FALSE

\* if (voice === voiceId) continue;
SynSkip(voice, voiceId) == voice = voiceId

\* Mutant: the list is walked from its end.
SynNextAlt_Reverse(i, voiceId) ==
  LET top == IF i = 0 THEN Len(commonVoices) + 1 ELSE i
      js == {j \in 1..(top - 1) : ~SynSkip(commonVoices[j], voiceId)}
  IN IF js = {} THEN 0 ELSE CHOOSE j \in js : \A k \in js : j >= k

\* The next iteration of the for-of loop after position i that issues a
\* fetch, or 0 when the loop is over.
SynNextAlt(i, voiceId) ==
  LET js == {j \in (i + 1)..Len(commonVoices) :
               ~SynSkip(commonVoices[j], voiceId)}
  IN IF js = {} THEN 0 ELSE CHOOSE j \in js : \A k \in js : j <= k

\* After the 404 block: `response` is ok or not, `voiceId` is voice.
SynAfterLoop(s, ok, voice) ==
  LET s1 == [s EXCEPT !.voiceId = voice]
  IN IF s.path = "stream"
     THEN IF ~ok \/ ~s.w.hasReader
          THEN SynOnStreamError(s1)
          ELSE [s1 EXCEPT !.pc = "s_read"]
     ELSE IF ~ok THEN SynFail(s1)
                 ELSE [s1 EXCEPT !.pc = "c_body"]

\* Position j of the loop issues its fetch, or the loop is over (j = 0).
SynLoopTo(s, j) ==
  IF j = 0
  THEN SynAfterLoop(s, FALSE, s.voiceId)
  ELSE [s EXCEPT !.pc = IF s.path = "stream" THEN "s_loop" ELSE "c_loop",
                 !.i = j, !.reqs = Append(s.reqs, commonVoices[j])]

\* The first fetch of an attempt settles.
SynFetched ==
  /\ syn.pc \in {"s_fetch", "c_fetch"}
  /\ LET status == IF syn.path = "stream" THEN syn.w.sFirst ELSE syn.w.cFirst
     IN syn' = IF status = 404
               THEN SynLoopTo(syn, SynNextAlt(0, syn.voiceId))
               ELSE SynAfterLoop(syn, status = 200, syn.voiceId)
  /\ UNCHANGED nonSynVars

\* A fetch of the fallback loop settles: break on ok, else the next voice.
SynFallbackFetched ==
  /\ syn.pc \in {"s_loop", "c_loop"}
  /\ LET voice == commonVoices[syn.i]
     IN syn' = IF voice \in syn.w.okVoices
               THEN SynAfterLoop(syn, TRUE, voice)
               ELSE SynLoopTo(syn, SynNextAlt(syn.i, syn.voiceId))
  /\ UNCHANGED nonSynVars

\* Mutant: the new chunk is put in front of the earlier ones.
SynPush_Front(s, value) ==
  [s EXCEPT !.chunks = <<Base64(value)>> \o @, !.totalBytes = @ + value]

\* The loop body for one delivered block: chunks.push(base64Chunk) and
\* totalBytes += value.length.
SynPush(s, value) ==
  [s EXCEPT !.chunks = Append(@, Base64(value)), !.totalBytes = @ + value]

\* reader.read() settles: it rejects, delivers a block, or reports done.
SynRead ==
  /\ syn.pc = "s_read"
  /\ LET k == Len(syn.chunks) + 1
     IN syn' =
          IF syn.w.readFail = k
          THEN SynOnStreamError(syn)
          ELSE IF k <= Len(syn.w.blocks)
          THEN SynPush(syn, syn.w.blocks[k])
          ELSE [syn EXCEPT !.pc = "done", !.sOk = "ok",
                           !.result =
                             [ok |-> TRUE,
                              sessionId |-> syn.sessionId,
                              voice |-> syn.voiceId,
                              chunks |-> syn.chunks,
                              totalBytes |-> syn.totalBytes,
                              estimatedDuration |->
                                estimateDuration(syn.totalBytes),
                              isStreaming |-> TRUE]]
  /\ UNCHANGED nonSynVars

\* Mutant: the single chunk holds the data URI.
SynCompleteResult_UrlChunk(s, audioBuffer) ==
  [ok |-> TRUE,
   sessionId |-> s.sessionId,
   voice |-> s.voiceId,
   audioUrl |-> <<"data:audio/mp3;base64", Base64(audioBuffer)>>,
   totalBytes |-> audioBuffer,
   estimatedDuration |-> estimateDuration(audioBuffer),
   duration |-> estimateDuration(audioBuffer),
   chunks |-> <<<<"data:audio/mp3;base64", Base64(audioBuffer)>>>>,
   isStreaming |-> FALSE]

\* The object generateCompleteTTS returns for audioBuffer.
SynCompleteResult(s, audioBuffer) ==
  [ok |-> TRUE,
   sessionId |-> s.sessionId,
   voice |-> s.voiceId,
   audioUrl |-> <<"data:audio/mp3;base64", Base64(audioBuffer)>>,
   totalBytes |-> audioBuffer,
   estimatedDuration |-> estimateDuration(audioBuffer),
   duration |-> estimateDuration(audioBuffer),
   chunks |-> <<Base64(audioBuffer)>>,
   isStreaming |-> FALSE]

\* response.json() / response.arrayBuffer() of the complete path settles.
SynBody ==
  /\ syn.pc = "c_body"
  /\ syn' =
       IF syn.w.cJson /\ syn.w.cAudio = <<>>
       THEN SynFail(syn)
       ELSE LET payload == IF syn.w.cAudio = <<>> THEN 0 ELSE syn.w.cAudio[1]
                audioBuffer == IF syn.w.cJson
                               THEN Base64Decode(Base64(payload))
                               ELSE payload
            IN [syn EXCEPT !.pc = "done", !.cOk = "ok",
                           !.result = SynCompleteResult(syn, audioBuffer)]
  /\ UNCHANGED nonSynVars

SynNext == SynStart \/ SynFetched \/ SynFallbackFetched \/ SynRead \/ SynBody

\* ------------------------------------- workers of one type on one channel
\* Several LLM worker processes, each with its own messageQueue, subscribed
\* to LLM_REQUEST with subscriber.subscribe.  Redis Pub/Sub hands a published
\* message to every client subscribed to the channel at that moment.
\* queue[w] holds the requests delivered to worker w and not yet handled;
\* responses holds what was published on LLM_RESPONSE, each tagged with the
\* worker that published it (a ghost).
FanWorkers == 1..FanWorkersN

FanSession == "ws_1_a"

FanInit ==
  fan = [subscribed |-> {}, published |-> 0,
         queue |-> [w \in FanWorkers |-> <<>>], responses |-> {}]

\* LLMWorker.start of worker w: subscribeAsLLMWorker has subscribed.
FanSubscribe(w) ==
  /\ w \notin fan.subscribed
  /\ fan' = [fan EXCEPT !.subscribed = @ \cup {w}]
  /\ UNCHANGED nonFanVars

\* The server's publishLLMRequest: PUBLISH on LLM_REQUEST.
FanPublish ==
  /\ fan.published < FanRequests
  /\ \E twin \in TwinIds :
       LET t == fan.published + 1
           msg == LLMRequestMsg(FanSession, t,
                                [digitalTwinId |-> twin, prompt |-> "chi sei?",
                                 history |-> <<>>])
       IN fan' = [fan EXCEPT
                    !.published = t,
                    !.queue = [w \in FanWorkers |->
                                 IF w \in fan.subscribed
                                 THEN Append(fan.queue[w], msg)
                                 ELSE fan.queue[w]]]
  /\ UNCHANGED nonFanVars

\* The subscription callback of worker w on its next delivered message:
\* handleLLMRequest calls callLLM and publishes the response.
FanHandle(w) ==
  /\ fan.queue[w] # <<>>
  /\ \E provider \in LLMOutcomes :
       LET req == Head(fan.queue[w])
           d == req.data
           r == callLLM(d.digitalTwinId, d.prompt, d.history, provider)
       IN fan' = [fan EXCEPT
                    !.queue[w] = Tail(@),
                    !.responses = @ \cup
                      {[worker |-> w,
                        msg |-> LLMResponseMsg(req.sessionId,
                                               LLMWorkerData(d, r))]}]
  /\ UNCHANGED nonFanVars

FanNext ==
  \/ FanPublish
  \/ \E w \in FanWorkers : FanSubscribe(w) \/ FanHandle(w)

\* ------------------------- one worker process: messageQueue and start()
\* A client (publisher, subscriber) is "connecting" (its first connect() is
\* pending), "up", "down" (lost, the library is reconnecting) or "closed"
\* (connect() rejected, or quit).  w is the position of the worker's
\* start(): "waiting" for 'connected', "subscribing" (suspended on
\* subscriber.subscribe), "running", "failed" (start() threw) or "stopped".
\* reported and lastPublish are records: isConnected has been true, and
\* what the last publishLLMResponse / publishTTSResponse did.
MQKinds == {"llm", "tts"}

\* The request channel a worker of a kind subscribes to.
MQRequestChannel(kind) ==
  IF kind = "llm" THEN "digital-twin:llm:request"
                  ELSE "digital-twin:tts:request"

MQOff ==
  [pc |-> "off", kind |-> "none", pub |-> "none", sub |-> "none",
   isConnected |-> FALSE, w |-> "new", channels |-> {}, reported |-> FALSE,
   lastPublish |-> "none"]

MQInit == mq = MQOff

\* The process is started: the constructor runs init() up to its await, the
\* worker's start() finds isConnected false and waits for 'connected'.
MQStart ==
  /\ mq.pc = "off"
  /\ \E kind \in MQKinds :
       mq' = [mq EXCEPT !.pc = "on", !.kind = kind, !.pub = "connecting",
                        !.sub = "connecting", !.w = "waiting"]
  /\ UNCHANGED nonMQVars

\* Mutant: the 'connect' handler sets the flag without emitting 'connected'.
MQOnSubConnect_NoEmit(q) ==
  [q EXCEPT !.sub = "up", !.isConnected = TRUE, !.reported = TRUE]

\* subscriber.on('connect'): the flag is set and 'connected' is emitted; a
\* waiting start() resumes, passes the isConnected test of
\* subscribeAsLLMWorker / subscribeAsTTSWorker and suspends on subscribe.
MQOnSubConnect(q) ==
  [q EXCEPT !.sub = "up", !.isConnected = TRUE, !.reported = TRUE,
            !.w = IF q.w = "waiting" THEN "subscribing" ELSE q.w]

MQSubConnect ==
  /\ mq.pc = "on"
  /\ mq.sub \in {"connecting", "down"}
  /\ mq' = MQOnSubConnect(mq)
  /\ UNCHANGED nonMQVars

\* publisher.on('connect'): logged only.
MQPubConnect ==
  /\ mq.pc = "on"
  /\ mq.pub \in {"connecting", "down"}
  /\ mq' = [mq EXCEPT !.pub = "up"]
  /\ UNCHANGED nonMQVars

\* The state of a client after an 'error' event.
MQAfterError(c) == IF c = "up" THEN "down" ELSE c

\* publisher.on('error'): a lost connection or a failed (re)connection.
MQPubError ==
  /\ mq.pc = "on"
  /\ mq.pub \in {"connecting", "up", "down"}
  /\ mq.pub = "up" \/ mq.isConnected
  /\ mq' = [mq EXCEPT !.pub = MQAfterError(@), !.isConnected = FALSE]
  /\ UNCHANGED nonMQVars

\* subscriber.on('error'); a subscribe still pending on the lost connection
\* is rejected (start() throws and the process exits) or stays pending.
MQSubError ==
  /\ mq.pc = "on"
  /\ mq.sub \in {"connecting", "up", "down"}
  /\ mq.sub = "up" \/ mq.isConnected
  /\ \E rejected \in BOOLEAN :
       IF rejected /\ mq.w = "subscribing" /\ mq.sub = "up"
       THEN mq' = [mq EXCEPT !.pc = "exited", !.sub = "down", !.w = "failed",
                             !.isConnected = FALSE]
       ELSE mq' = [mq EXCEPT !.sub = MQAfterError(@), !.isConnected = FALSE]
  /\ UNCHANGED nonMQVars

\* A first connect() rejects: the catch of init() clears the flag.
MQInitFailed ==
  /\ mq.pc = "on"
  /\ \/ /\ mq.pub = "connecting"
        /\ mq' = [mq EXCEPT !.pub = "closed", !.isConnected = FALSE]
     \/ /\ mq.sub = "connecting"
        /\ mq' = [mq EXCEPT !.sub = "closed", !.isConnected = FALSE]
  /\ UNCHANGED nonMQVars

\* subscriber.subscribe of start() resolves: isRunning = true.
MQSubscribed ==
  /\ mq.pc = "on"
  /\ mq.w = "subscribing"
  /\ mq.sub = "up"
  /\ mq' = [mq EXCEPT !.w = "running",
                      !.channels = @ \cup {MQRequestChannel(mq.kind)}]
  /\ UNCHANGED nonMQVars

\* publishLLMResponse / publishTTSResponse of the running worker: throws
\* 'Message queue not connected' while the flag is false.
MQPublish ==
  /\ mq.pc = "on"
  /\ mq.w = "running"
  /\ mq' = [mq EXCEPT !.lastPublish = IF mq.isConnected THEN "published"
                                                        ELSE "thrown"]
  /\ UNCHANGED nonMQVars

\* SIGTERM / SIGINT: stop() and close(), then the process exits.
MQClose ==
  /\ mq.pc = "on"
  /\ mq' = [mq EXCEPT !.pc = "exited", !.pub = "closed", !.sub = "closed",
                      !.isConnected = FALSE,
                      !.w = IF @ = "running" THEN "stopped" ELSE @]
  /\ UNCHANGED nonMQVars

MQNext ==
  \/ MQStart
  \/ MQSubConnect
  \/ MQPubConnect
  \/ MQPubError
  \/ MQSubError
  \/ MQInitFailed
  \/ MQSubscribed
  \/ MQPublish
  \/ MQClose

\* ----------------------------------------------------------- specifications
Init ==
  HTMInit /\ SrvInit /\ TestInit /\ SynInit /\ CacheInit /\ RaceInit
  /\ HBInit /\ FanInit /\ MQInit

SpecHTM == Init /\ [][HTMNext]_vars

SpecServer == Init /\ [][SrvNext]_vars

SpecTestServer == Init /\ [][TestNext]_vars

SpecTTS == Init /\ [][SynNext]_vars

SpecCache == Init /\ [][CacheNext]_vars

SpecSetRace == Init /\ [][RaceNext]_vars

SpecHistoryBuild == Init /\ [][HBNext]_vars

SpecWorkers == Init /\ [][FanNext]_vars

SpecQueue == Init /\ [][MQNext]_vars

\* The subscribe of start() is answered while the subscriber stays connected.
SpecQueueFair == SpecQueue /\ WF_vars(MQSubscribed)

\* handleTwinMessage and the server's own message handler share no state:
\* a behaviour of Spec exercises one of the two entry points.
HTMUntouched == \A t \in HTMCalls : htm[t].pc = "idle"

SrvUntouched == \A c \in Conns : conn[c].state = "new"

Next == (SrvUntouched /\ HTMNext) \/ (HTMUntouched /\ SrvNext)

Spec == Init /\ [][Next]_vars

\* ================================================================ properties
Types(ms) == [i \in 1..Len(ms) |-> ms[i].type]

OfType(ms, type) == SelectSeq(ms, LAMBDA m : m.type = type)

\* Messages of one call of handleTwinMessage, in the order sent.
HTMTurnMsgs(t) == SelectSeq(htmSent, LAMBDA m : m.turn = t)

HTMTextOk(t) == htm[t].pc # "idle" /\ htm[t].pc # "await_llm" /\ ~htm[t].threw
                /\ htm[t].llm.ok

HTMSynthOk(t) == htm[t].tts = "settled" /\ htm[t].ttsRes.ok

HTMSynthFailed(t) == htm[t].tts = "settled" /\ ~htm[t].ttsRes.ok

\* C1: a turn of handleTwinMessage whose text generation and synthesis both
\* succeeded has sent, in this order and nothing else of the turn: one
\* twin_response, one tts_started, the audio_chunk messages in increasing
\* chunk_index order, one tts_complete.
C1_TurnOrder ==
  \A t \in HTMCalls :
    (HTMTextOk(t) /\ HTMSynthOk(t)) =>
      LET ms == HTMTurnMsgs(t)
          n == Len(ms)
      IN /\ n >= 3
         /\ ms[1].type = "twin_response"
         /\ ms[2].type = "tts_started"
         /\ ms[n].type = "tts_complete"
         /\ \A i \in 3..(n - 1) : ms[i].type = "audio_chunk"
         /\ \A i \in 3..(n - 2) : ms[i].chunk_index < ms[i + 1].chunk_index

\* C1 witness: a successful turn with two chunks, sent while another call
\* of the handler has put its own text on the connection in between.
C1_Witness ==
  \E t \in HTMCalls :
    /\ HTMTextOk(t) /\ HTMSynthOk(t)
    /\ Len(OfType(HTMTurnMsgs(t), "audio_chunk")) = 2
    /\ \E i, j, k \in 1..Len(htmSent) :
         /\ i < j /\ j < k
         /\ htmSent[i].turn = t /\ htmSent[j].turn # t /\ htmSent[k].turn = t

\* C3: every successful synthesis result has a non-empty chunks sequence, so
\* that exactly one audio_chunk with is_final_chunk = true is sent for it.
C3_ChunksNonEmpty ==
  \A t \in HTMCalls :
    HTMSynthOk(t) =>
      /\ Len(htm[t].ttsRes.chunks) >= 1
      /\ Len(SelectSeq(HTMTurnMsgs(t),
                       LAMBDA m : m.type = "audio_chunk" /\ m.is_final_chunk)) = 1

\* The provider call made by callLLM failed in call t.
HTMProviderFailed(t) ==
  htm[t].pc # "idle" /\ htm[t].pc # "await_llm" /\ ~htm[t].threw /\ ~htm[t].llm.ok

\* C4: when the provider call of text generation fails, the client receives
\* exactly one error with stage twin_response, no twin_response and no
\* tts_started / audio_chunk / tts_complete for the turn.
C4_TextFailureReported ==
  \A t \in HTMCalls :
    HTMProviderFailed(t) =>
      LET ms == HTMTurnMsgs(t)
      IN /\ Len(SelectSeq(ms, LAMBDA m : m.type = "error"
                                         /\ m.stage = "twin_response")) = 1
         /\ \A i \in 1..Len(ms) :
              ms[i].type \notin {"twin_response", "tts_started", "audio_chunk",
                                 "tts_complete"}
         /\ htm[t].tts = "none"

\* C5: when generateTTS fails after the text was produced, the turn's
\* messages are the twin_response followed by exactly one error with
\* TTS_ERROR / tts_synthesis, and nothing else.
C5_SynthFailureIsolated ==
  \A t \in HTMCalls :
    HTMSynthFailed(t) =>
      LET ms == HTMTurnMsgs(t)
      IN /\ Len(ms) = 2
         /\ ms[1].type = "twin_response"
         /\ ms[2].type = "error"
         /\ ms[2].error_code = "TTS_ERROR"
         /\ ms[2].stage = "tts_synthesis"

\* C5 witness: a call whose synthesis failed after its text was sent.
C5_Witness ==
  \E t \in HTMCalls :
    HTMSynthFailed(t) /\ Len(OfType(HTMTurnMsgs(t), "twin_response")) = 1

\* C6: whenever synthesis has been started for a call, the call's
\* twin_response was sent first and, while synthesis is still pending, the
\* handler has already returned the new history to its caller.
C6_TextNeverWaits ==
  \A t \in HTMCalls :
    /\ htm[t].tts # "none" =>
         (HTMTurnMsgs(t) # <<>> /\ HTMTurnMsgs(t)[1].type = "twin_response")
    /\ htm[t].tts = "pending" =>
         (htm[t].pc = "returned" /\ Len(HTMTurnMsgs(t)) = 1)

\* C6 witness: the handler has returned while its synthesis is pending.
C6_Witness ==
  \E t \in HTMCalls :
    htm[t].tts = "pending" /\ htm[t].pc = "returned"
    /\ htm[t].ret = htm[t].history \o <<Entry("user", htm[t].prompt),
                                        Entry("assistant", htm[t].reply)>>

\* Messages the server sent on connection c for client message t.
SrvTurnMsgs(c, t) == SelectSeq(wsSent[c], LAMBDA m : m.turn = t)

\* C2: the audio_chunk messages forwarded for a synthesis result with N
\* chunks carry the indices 0..N-1 in order, without gap or repeat, each with
\* the total N and the final flag exactly on index N-1, and tts_complete
\* reports N; in handleTwinMessage, in direct mode and in handleTTSResponse.
C2_ChunkAccounting ==
  /\ \A t \in HTMCalls :
       LET ms == HTMTurnMsgs(t)
           cs == OfType(ms, "audio_chunk")
           done == OfType(ms, "tts_complete")
       IN /\ cs # <<>> =>
               /\ htm[t].ttsRes.ok
               /\ Len(cs) = Len(htm[t].ttsRes.chunks)
               /\ \A i \in 1..Len(cs) :
                    /\ cs[i].chunk_index = i - 1
                    /\ cs[i].total_chunks_expected = Len(htm[t].ttsRes.chunks)
                    /\ cs[i].is_final_chunk = (i = Len(htm[t].ttsRes.chunks))
                    /\ cs[i].audio_base64 = htm[t].ttsRes.chunks[i]
          /\ \A i \in 1..Len(done) :
               /\ htm[t].ttsRes.ok
               /\ done[i].total_chunks = Len(htm[t].ttsRes.chunks)
               /\ Len(cs) = Len(htm[t].ttsRes.chunks)
  /\ \A t \in SrvMsgs, c \in Conns :
       LET ms == SrvTurnMsgs(c, t)
           cs == OfType(ms, "audio_chunk")
           done == OfType(ms, "tts_complete")
       IN /\ cs # <<>> =>
               /\ srv[t].ttsRes.ok
               /\ Len(cs) = Len(srv[t].ttsRes.chunks)
               /\ \A i \in 1..Len(cs) :
                    /\ cs[i].chunkIndex = i - 1
                    /\ cs[i].totalChunks = Len(srv[t].ttsRes.chunks)
                    /\ cs[i].isFinalChunk = (i = Len(srv[t].ttsRes.chunks))
                    /\ cs[i].audioBase64 = srv[t].ttsRes.chunks[i]
          /\ \A i \in 1..Len(done) :
               /\ srv[t].ttsRes.ok
               /\ done[i].totalChunks = Len(srv[t].ttsRes.chunks)
               /\ Len(cs) = Len(srv[t].ttsRes.chunks)

\* C2 witness: a two-chunk result has been forwarded, by handleTwinMessage
\* with its tts_complete or by the server in direct mode.
C2_Witness ==
  \/ \E t \in HTMCalls :
       /\ Len(OfType(HTMTurnMsgs(t), "audio_chunk")) = 2
       /\ Len(OfType(HTMTurnMsgs(t), "tts_complete")) = 1
  \/ \E t \in SrvMsgs, c \in Conns :
       /\ srv[t].mode = "direct"
       /\ Len(OfType(SrvTurnMsgs(c, t), "audio_chunk")) = 2

\* C7: a message sent on behalf of a broker response goes only to the
\* connection of the session the response is addressed to.
C7_RoutedToAddressee ==
  \A c \in Conns :
    \A i \in 1..Len(wsSent[c]) :
      wsSent[c][i].viaQueue => wsSent[c][i].addressee = conn[c].sid

\* C8: a response published with success = true is forwarded as
\* twin_response or tts_started / audio_chunk / tts_complete; an error with
\* LLM_PROCESSING_ERROR or TTS_PROCESSING_ERROR is sent only for a response
\* published with success = false.
C8_SuccessForwarded ==
  \A c \in Conns :
    \A i \in 1..Len(wsSent[c]) :
      LET m == wsSent[c][i]
      IN m.viaQueue =>
           /\ m.workerSuccess => m.type # "error"
           /\ (m.type = "error"
               /\ m.error_code \in {"LLM_PROCESSING_ERROR",
                                    "TTS_PROCESSING_ERROR"})
                => ~m.workerSuccess

\* Nothing of client message t is still under way.
SrvSettled(t) ==
  /\ srv[t].pc = "done"
  /\ \A r \in llmReq \cup ttsReq : r.data.requestId[2] # t
  /\ \A i \in 1..Len(inbox) : inbox[i].data.requestId[2] # t

\* The message types the protocol gives for a turn whose text succeeded and
\* whose synthesis ended with result r.
ExpectedTypes(r) ==
  IF r.ok
  THEN <<"twin_response", "tts_started">>
         \o [i \in 1..Len(r.chunks) |-> "audio_chunk"]
         \o <<"tts_complete">>
  ELSE <<"twin_response", "error">>

\* C9: in direct mode and in queued mode alike, a turn whose text succeeded
\* and whose synthesis ended shows the client the same sequence of message
\* types: twin_response, tts_started, N audio_chunk, tts_complete after a
\* successful synthesis, twin_response and the error after a failed one.
C9_ModesAgree ==
  \A t \in SrvMsgs :
    (/\ srv[t].mode \in {"direct", "queued"}
     /\ SrvSettled(t)
     /\ srv[t].llmDone /\ srv[t].llmOk /\ srv[t].ttsDone
     /\ conn[srv[t].conn].state = "open")
    => Types(SrvTurnMsgs(srv[t].conn, t)) = ExpectedTypes(srv[t].ttsRes)

\* C10: in queued mode the TTS worker processes a turn's request only after
\* the turn's text generation has succeeded, and no tts_started, audio_chunk
\* or tts_complete of a turn precedes its twin_response on a connection.
C10_SynthesisAfterText ==
  \A t \in SrvMsgs :
    /\ (srv[t].mode = "queued" /\ srv[t].ttsDone) => ~srv[t].ttsBeforeLLM
    /\ \A c \in Conns :
         LET ms == SrvTurnMsgs(c, t)
         IN \A i \in 1..Len(ms) :
              (ms[i].viaQueue
               /\ ms[i].type \in {"tts_started", "audio_chunk", "tts_complete"})
              => \E j \in 1..(i - 1) : ms[j].type = "twin_response"

\* C11: in handleTwinMessage, in direct mode and in queued mode, the text
\* handed to generateTTS for a turn is the reply generated for that turn,
\* the text of the turn's twin_response.
C11_SynthesisTextIsReply ==
  /\ \A t \in HTMCalls :
       htm[t].ttsText # <<>> =>
         /\ htm[t].ttsText = <<htm[t].reply>>
         /\ \E i \in 1..Len(htmSent) :
              /\ htmSent[i].turn = t
              /\ htmSent[i].type = "twin_response"
              /\ <<htmSent[i].text>> = htm[t].ttsText
  /\ \A t \in SrvMsgs :
       (srv[t].ttsText # <<>> /\ srv[t].llmDone /\ srv[t].llmOk) =>
         srv[t].ttsText = <<srv[t].reply>>

\* A twin_response announcing audio is among the messages ms.
AudioAnnounced(ms) ==
  \E i \in 1..Len(ms) : ms[i].type = "twin_response" /\ ms[i].tts_will_follow

\* tts_complete, or an error of the synthesis stage, is among the messages ms.
SynthesisOutcomeIn(ms) ==
  \E i \in 1..Len(ms) :
    \/ ms[i].type = "tts_complete"
    \/ /\ ms[i].type = "error"
       /\ ms[i].error_code \in {"TTS_ERROR", "TTS_PROCESSING_ERROR"}

\* C12: in handleTwinMessage, in direct mode and in queued mode, a turn whose
\* twin_response announced audio (tts_will_follow = true), whose connection
\* is still open and whose synthesis call has ended, has been sent
\* tts_complete or an error of the synthesis stage; and tts_will_follow =
\* true is sent only for a turn for which synthesis was requested.
C12_SynthesisOutcomeReported ==
  /\ \A t \in HTMCalls :
       AudioAnnounced(HTMTurnMsgs(t)) =>
         /\ htm[t].tts # "none"
         /\ htm[t].tts = "settled" => SynthesisOutcomeIn(HTMTurnMsgs(t))
  /\ \A t \in SrvMsgs :
       (srv[t].conn # NoConn /\ AudioAnnounced(SrvTurnMsgs(srv[t].conn, t))) =>
         /\ srv[t].ttsOpt # "false"
         /\ (/\ conn[srv[t].conn].state = "open"
             /\ srv[t].ttsDone
             /\ SrvSettled(t))
            => SynthesisOutcomeIn(SrvTurnMsgs(srv[t].conn, t))

\* C13: when the subscriber hands over a worker response whose session is
\* no longer in activeSessions, no message is sent on any connection.
C13_OrphanDropped ==
  [][(/\ inbox # <<>>
      /\ inbox' = Tail(inbox)
      /\ activeSessions[Head(inbox).sessionId] = NoConn)
     => wsSent' = wsSent]_vars

\* The connection's socket has had its 'close' or 'error' event.
SrvGone(c) == conn[c].state \in {"errored", "closed"}

\* C14: activeSessions holds a connection's session from connection-open
\* until the connection's close or error event: an open connection's session
\* is in the Map, whatever other connections have done; after close or error
\* the session is not in the Map, whatever requests are in flight; and the
\* 'close' that follows an 'error' changes nothing in the Map.
C14_RegistryLifecycle ==
  /\ [](\A c \in Conns :
          /\ conn[c].state = "open" => activeSessions[conn[c].sid] # NoConn
          /\ SrvGone(c) => activeSessions[conn[c].sid] = NoConn)
  /\ [][\A c \in Conns :
          (conn[c].state = "errored" /\ conn'[c].state = "closed")
            => activeSessions' = activeSessions]_vars

\* C15: the session identifiers given at connection-open are pairwise
\* distinct for the lifetime of the registry, on the server and on the test
\* server: no two connections, open or gone, have the same identifier.
C15_SessionIdsDistinct ==
  /\ \A c, d \in Conns :
       (c # d /\ conn[c].state # "new" /\ conn[d].state # "new")
         => conn[c].sid # conn[d].sid
  /\ \A c, d \in TestConns :
       (c # d /\ testConn[c].state # "new" /\ testConn[d].state # "new")
         => testConn[c].sid # testConn[d].sid

\* The request published for client message t: "llm" or "tts".
SrvPublished(t, kind) ==
  /\ srv[t].mode = "queued"
  /\ kind = "llm" \/ (srv[t].pc = "done" /\ srv[t].ttsOpt # "false")

\* Messages on connection c that open the handling of a response to rid.
SrvHandlings(c, rid) ==
  SelectSeq(wsSent[c],
            LAMBDA m : /\ m.viaQueue
                       /\ m.requestId = rid
                       /\ m.type \in {"twin_response", "tts_started", "error"})

\* C16: a message sent on a connection on behalf of a broker response
\* answers a request that was published for that connection's session, with
\* the session id and the requestId of that request, and a response is
\* acted upon at most once.
C16_ResponseMatchesRequest ==
  \A c \in Conns :
    \A i \in 1..Len(wsSent[c]) :
      LET m == wsSent[c][i]
      IN m.viaQueue =>
           /\ m.addressee = conn[c].sid
           /\ \E t \in SrvMsgs, kind \in {"llm", "tts"} :
                /\ SrvPublished(t, kind)
                /\ srv[t].sid = conn[c].sid
                /\ m.requestId = RequestId(srv[t].sid, t, kind)
           /\ Len(SrvHandlings(c, m.requestId)) <= 1

\* What handleXRequest published for the request req it was handed, with
\* the worker's queue connected or not, agrees with the request.
WorkerAnswered(got, connected, pub) ==
  /\ Len(pub) <= 1
  /\ connected => Len(pub) = 1
  /\ \A i \in 1..Len(pub) :
       /\ pub[i].sessionId = got[1].sessionId
       /\ pub[i].data.requestId = got[1].data.requestId

\* The provider generated the reply of client message t: callLLM did not
\* throw and its provider call succeeded.
SrvTextGenerated(t) == srv[t].llmOk /\ srv[t].llm.ok

\* C17: for every request a worker was handed it published at most one
\* response, and exactly one when its queue was connected; the response
\* carries the request's sessionId and requestId; success is true with the
\* result when the generation succeeded, false with the error text when it
\* failed.
C17_OneResponsePerRequest ==
  \A t \in SrvMsgs :
    /\ srv[t].llmGot # <<>> =>
         /\ WorkerAnswered(srv[t].llmGot, srv[t].llmConn, srv[t].llmPub)
         /\ \A i \in 1..Len(srv[t].llmPub) :
              LET data == srv[t].llmPub[i].data
              IN /\ data.success = SrvTextGenerated(t)
                 /\ data.success => (Has(data, "reply")
                                     /\ data.reply = srv[t].reply)
                 /\ ~data.success => (Has(data, "error")
                                      /\ ~Has(data, "reply"))
    /\ srv[t].ttsGot # <<>> =>
         /\ WorkerAnswered(srv[t].ttsGot, srv[t].ttsConn, srv[t].ttsPub)
         /\ \A i \in 1..Len(srv[t].ttsPub) :
              LET data == srv[t].ttsPub[i].data
              IN /\ data.success = srv[t].ttsRes.ok
                 /\ data.success => (Has(data, "ttsResult")
                                     /\ data.ttsResult.chunks
                                          = srv[t].ttsRes.chunks)
                 /\ ~data.success => (Has(data, "error")
                                      /\ data.error = srv[t].ttsRes.err
                                      /\ ~Has(data, "ttsResult"))

\* The step-by-step call ends with what the operator generateTTS gives for
\* the same provider behaviour.
SynMatchesGenerateTTS ==
  syn.pc = "done" => syn.result = generateTTS(syn.sessionId, syn.w)

\* C18: generateTTS returns a result exactly when the streaming path or the
\* complete-buffer path succeeded and fails only when both failed; every
\* failure of the streaming attempt is followed by the complete-buffer
\* attempt, and the result returned after it holds the one chunk of the
\* complete payload and no chunk collected while streaming.
C18_FallbackToComplete ==
  /\ syn.sOk = "failed" => syn.cOk # "none" \/ syn.pc \in {"c_fetch", "c_loop",
                                                          "c_body"}
  /\ syn.pc = "done" =>
       /\ syn.result.ok <=> (syn.sOk = "ok" \/ syn.cOk = "ok")
       /\ ~syn.result.ok => (syn.sOk = "failed" /\ syn.cOk = "failed")
       /\ (syn.sOk = "failed" /\ syn.result.ok) =>
            /\ ~syn.result.isStreaming
            /\ Len(syn.result.chunks) = 1
            /\ \A i \in 1..Len(syn.sChunks) :
                 \A j \in 1..Len(syn.result.chunks) :
                   syn.result.chunks[j] # syn.sChunks[i]

\* C18 witness: the stream broke after a block had been collected and the
\* complete-buffer attempt gave the result.
C18_Witness ==
  /\ syn.pc = "done"
  /\ syn.sOk = "failed" /\ syn.sChunks # <<>>
  /\ syn.result.ok

\* Position of voice v in commonVoices, 0 when it is not there.
VoiceIndex(v) ==
  IF InCommonVoices(v)
  THEN CHOOSE i \in 1..Len(commonVoices) : commonVoices[i] = v
  ELSE 0

\* The provider requests of one attempt: no voice twice, the first request
\* then known-good voices other than it, in list order.
AttemptOk(reqs) ==
  /\ Len(reqs) <= Len(commonVoices) + 1
  /\ \A i, j \in 1..Len(reqs) : i # j => reqs[i] # reqs[j]
  /\ \A i \in 2..Len(reqs) : VoiceIndex(reqs[i]) # 0 /\ reqs[i] # reqs[1]
  /\ \A i \in 2..(Len(reqs) - 1) : VoiceIndex(reqs[i]) < VoiceIndex(reqs[i + 1])

\* C20: within one synthesis attempt the fallback search issues at most one
\* request per voice, the initial voice and then each known-good voice other
\* than it, in list order, so that it ends after at most the whole list.
C20_FallbackVisitsOnce ==
  /\ AttemptOk(syn.reqs)
  /\ AttemptOk(syn.sReqs)
  /\ syn.i <= Len(commonVoices)

\* C20 witness: a call whose streaming attempt started from a known-good
\* voice and asked for every other one, and whose complete-buffer attempt
\* did the same.
C20_Witness ==
  /\ syn.pc = "done"
  /\ Len(syn.sReqs) = Len(commonVoices)
  /\ Len(syn.reqs) = Len(commonVoices)
  /\ InCommonVoices(syn.sReqs[1])

\* The voice the resolution rule gives for a requested voice ("null": none
\* requested) and the configured default.
ResolvedVoice(requested, agentId) ==
  LET candidate == IF requested # "null" THEN requested ELSE agentId
  IN IF InCommonVoices(candidate) \/ isValidUUID(candidate)
     THEN candidate
     ELSE "henry"

\* The voice a turn asked for: the voiceId of the TTS request the worker
\* received, or the client's tts_options.voice in direct mode.
SrvRequestedVoice(t) ==
  IF srv[t].ttsGot # <<>> THEN srv[t].ttsGot[1].data.voiceId
                          ELSE RequestedVoice(srv[t].ttsOpt)

\* C19: the first synthesis request of a turn is made with the requested
\* voice (the configured default when none is requested) if that voice is
\* known-good or UUID-shaped, and with 'henry' otherwise.
C19_RequestedVoiceUsed ==
  \A t \in SrvMsgs :
    srv[t].ttsDone =>
      srv[t].ttsVoice = <<ResolvedVoice(SrvRequestedVoice(t), srv[t].ttsAgent)>>

\* First status the provider gave in the attempt that syn is in.
SynFirstStatus == IF syn.path = "stream" THEN syn.w.sFirst ELSE syn.w.cFirst

\* Known-good voices other than v that the provider accepts, by position.
OkAlternates(v, okVoices) ==
  {j \in 1..Len(commonVoices) :
     commonVoices[j] # v /\ commonVoices[j] \in okVoices}

\* C21: alternates are requested only after a voice-not-found answer for the
\* initial voice; a result obtained after such an answer reports the earliest
\* known-good voice, other than the initial one, that the provider accepts,
\* that voice is the last one requested and every alternate requested before
\* it was refused.
C21_FirstAlternateWins ==
  /\ Len(syn.reqs) > 1 => SynFirstStatus = 404
  /\ Len(syn.sReqs) > 1 => syn.w.sFirst = 404
  /\ (syn.pc = "done" /\ syn.result.ok) =>
       LET initial == getBestVoiceId(syn.w.agentId)
           alts == OkAlternates(initial, syn.w.okVoices)
       IN IF SynFirstStatus = 404
          THEN /\ alts # {}
               /\ \E j \in alts :
                    /\ \A k \in alts : j <= k
                    /\ syn.result.voice = commonVoices[j]
               /\ syn.reqs[Len(syn.reqs)] = syn.result.voice
               /\ \A i \in 2..(Len(syn.reqs) - 1) :
                    syn.reqs[i] \notin syn.w.okVoices
          ELSE /\ syn.result.voice = initial
               /\ syn.reqs = <<initial>>

\* C21 witness: after voice-not-found the provider accepts two alternates and
\* the result reports the earlier one, the second voice of the list not being
\* the first accepted.
C21_Witness ==
  /\ syn.pc = "done" /\ syn.result.ok
  /\ SynFirstStatus = 404
  /\ syn.w.okVoices = {"sarah", "jane"}
  /\ syn.result.voice = "sarah"
  /\ Len(syn.reqs) > 2

\* The audio payload the provider delivers on the complete-buffer path.
SynPayloadOf(w) == IF w.cAudio = <<>> THEN 0 ELSE w.cAudio[1]

\* C22: a result of the complete-buffer path is non-streaming, has exactly
\* one chunk, the base64 of the whole payload, and audioUrl the data URI of
\* the same payload; a result of the streaming path is streaming and has no
\* audioUrl; every sender puts is_final_chunk = true on the single chunk of a
\* non-streaming result.
C22_ResultShape ==
  (syn.pc = "done" /\ syn.result.ok) =>
    LET r == syn.result
    IN IF syn.cOk = "ok"
       THEN /\ ~r.isStreaming
            /\ r.chunks = <<Base64(SynPayloadOf(syn.w))>>
            /\ r.audioUrl = <<"data:audio/mp3;base64",
                              Base64(SynPayloadOf(syn.w))>>
            /\ Len(HTMAudioChunks(1, r)) = 1
            /\ HTMAudioChunks(1, r)[1].is_final_chunk
            /\ HTMAudioChunks(1, r)[1].audio_base64 = r.chunks[1]
            /\ LET sent == SrvAudioChunks(1, "ws_1_a", r.chunks,
                                          DirectGhost("ws_1_a"))
               IN Len(sent) = 1 /\ sent[1].isFinalChunk
       ELSE /\ r.isStreaming
            /\ ~Has(r, "audioUrl")

\* C22 witness: the complete-buffer path returned the audio of a JSON
\* envelope after the streaming attempt had failed.
C22_Witness ==
  /\ syn.pc = "done" /\ syn.result.ok
  /\ syn.cOk = "ok" /\ syn.w.cJson
  /\ syn.result.totalBytes = SynPayload

\* What a getHistory(id) issued now returns when tier-2, if ready, answers.
HistoryRead(id) ==
  LET key == cacheKey(id)
      l1Data == getFromL1Cache(l1Cache, key, clock)
  IN IF l1Data # <<>> THEN l1Data[1]
     ELSE IF redisAvailable /\ redisStore[key] # <<>>
     THEN JSONParse(redisStore[key][1])
     ELSE MemoryGet(memoryStore, id)

\* A twin_response of turn t has been sent on some connection.
SrvTextSent(t) ==
  \E c \in Conns : \E i \in 1..Len(wsSent[c]) :
    wsSent[c][i].type = "twin_response" /\ wsSent[c][i].turn = t

\* history ends with the user entry and the assistant entry of one turn.
EndsWithTurn(history, prompt, reply) ==
  /\ Len(history) >= 2
  /\ history[Len(history) - 1] = Entry("user", prompt)
  /\ history[Len(history)] = Entry("assistant", reply)

\* C23: once the twin_response of a turn whose text generation succeeded has
\* been sent, a getHistory for the twin returns a history that ends with the
\* turn's user entry followed by its assistant entry.
C23_TurnAppended ==
  \A t \in SrvMsgs :
    (SrvTextGenerated(t) /\ SrvTextSent(t)) =>
      EndsWithTurn(HistoryRead(srv[t].twin), srv[t].prompt, srv[t].llm.reply)

\* callLLM of call t has returned (it did not throw).
HTMLLMReturned(t) ==
  htm[t].pc \notin {"idle", "await_llm"} /\ ~htm[t].threw

\* C24: the history a text-generation call returns is its input history,
\* then one user entry with the prompt, then, when the provider answered, one
\* assistant entry with the reply, and nothing else.
C24_HistoryExtended ==
  \A t \in HTMCalls :
    HTMLLMReturned(t) =>
      htm[t].ret = htm[t].history
                     \o <<Entry("user", htm[t].prompt)>>
                     \o (IF htm[t].llm.ok
                         THEN <<Entry("assistant", htm[t].llm.reply)>>
                         ELSE <<>>)

\* The calls of the history cache that have returned, by position.
Calls == 1..Len(clog)

\* Age of the tier-1 entry that call e found: -1 when there was none.
L1Age(e) == IF e.l1Before = <<>> THEN -1 ELSE e.at - e.l1Before[1].timestamp

\* A history of one user entry followed by one assistant entry.
IsOneTurn(history) ==
  /\ Len(history) = 2
  /\ history[1].role = "user"
  /\ history[2].role = "assistant"

\* C25: from empty stores, setHistory of a one-turn history followed by
\* getHistory of the same twin returns that history, whatever tier-2 did
\* during the write and the read and however much time passed in between.
C25_RoundTrip ==
  (/\ Len(clog) >= 2
   /\ clog[1].kind = "set" /\ IsOneTurn(clog[1].arg)
   /\ clog[2].kind = "get" /\ clog[2].id = clog[1].id)
  => clog[2].ret = clog[1].arg

\* C25 witness: the write went to tier-2, the read came after the tier-1
\* entry had expired and was answered by tier-2.
C25_Witness ==
  /\ Len(clog) >= 2
  /\ clog[1].kind = "set" /\ IsOneTurn(clog[1].arg) /\ clog[1].tier2 = "ok"
  /\ clog[2].kind = "get" /\ ~clog[2].l1Hit /\ clog[2].tier2 = "ok"
  /\ ~clog[2].memRead

\* A getHistory returns from a tier-1 hit in this step.
GetHitStep ==
  /\ Len(clog') = Len(clog) + 1
  /\ clog'[Len(clog')].kind = "get"
  /\ clog'[Len(clog')].l1Hit

\* C26: a getHistory that finds a fresh tier-1 entry returns its data without
\* a tier-2 read and without a last-resort read, and leaves the three stores
\* as they were.
C26_L1HitShortCircuits ==
  /\ [](\A i \in Calls :
          (clog[i].kind = "get" /\ L1Age(clog[i]) \in 0..(L1_CACHE_TTL - 1)) =>
            /\ clog[i].l1Hit
            /\ clog[i].ret = clog[i].l1Before[1].data
            /\ clog[i].tier2 = "none"
            /\ ~clog[i].memRead)
  /\ [][GetHitStep => UNCHANGED <<l1Cache, redisStore, memoryStore>>]_vars

\* C26 witness: a tier-1 hit while tier-2 is ready and holds the key.
C26_Witness ==
  /\ redisAvailable
  /\ \E i \in Calls :
       /\ clog[i].kind = "get" /\ clog[i].l1Hit
       /\ clog[i].ret # <<>>
       /\ redisStore[cacheKey(clog[i].id)] # <<>>

\* C27: when tier-2 answered the read of a getHistory and the last-resort
\* store was read all the same (tier-2 does not hold the key), the history
\* returned is empty.
C27_Tier2Decides ==
  \A i \in Calls :
    (clog[i].kind = "get" /\ clog[i].tier2 = "ok" /\ clog[i].memRead) =>
      clog[i].ret = <<>>

\* C28: when setHistory has returned, tier-1 and the last-resort store hold
\* the history it was given, whatever the tier-2 write did.
C28_SetAlwaysLocal ==
  (/\ clog # <<>>
   /\ clog[Len(clog)].kind = "set"
   /\ cop.pc = "idle")
  => LET e == clog[Len(clog)]
     IN /\ l1Cache[cacheKey(e.id)] # <<>>
        /\ l1Cache[cacheKey(e.id)][1].data = e.arg
        /\ memoryStore[e.id] = <<e.arg>>

\* C28 witness: a setHistory whose tier-2 write was rejected has returned.
C28_Witness ==
  /\ clog # <<>>
  /\ clog[Len(clog)].kind = "set"
  /\ clog[Len(clog)].tier2 = "failed"
  /\ clog[Len(clog)].arg # <<>>
  /\ cop.pc = "idle"

\* C29: a getHistory that follows a deleteHistory of the same twin, with no
\* call in between, returns the empty history.
C29_DeletedStaysDeleted ==
  \A i \in Calls :
    (/\ i > 1
     /\ clog[i].kind = "get"
     /\ clog[i - 1].kind = "delete"
     /\ clog[i - 1].id = clog[i].id)
    => clog[i].ret = <<>>

\* C30: a tier-1 entry whose age has reached the window is not returned as a
\* tier-1 hit, one that is younger is.
C30_L1Expiry ==
  \A i \in Calls :
    clog[i].kind = "get" =>
      /\ L1Age(clog[i]) >= L1_CACHE_TTL => ~clog[i].l1Hit
      /\ L1Age(clog[i]) \in 0..(L1_CACHE_TTL - 1) =>
           (clog[i].l1Hit /\ clog[i].ret = clog[i].l1Before[1].data)

\* C30 witness: one read found the entry one minute before the window and
\* hit, a later one found it exactly at the window and fell through.
C30_Witness ==
  \E i, j \in Calls :
    /\ clog[i].kind = "get" /\ L1Age(clog[i]) = L1_CACHE_TTL - 1
    /\ clog[i].l1Hit
    /\ clog[j].kind = "get" /\ L1Age(clog[j]) = L1_CACHE_TTL
    /\ ~clog[j].l1Hit


\* The encodings of the first n blocks, in reception order.
C39_StreamedEncoding(blocks, n) == [i \in 1..n |-> Base64(blocks[i])]

\* C39: when a streaming synthesis has received the blocks b1..bn of the
\* provider stream and the stream has ended, the result's chunks are the
\* base64 encodings of b1..bn in reception order, one chunk per block, and
\* totalBytes is the sum of the block sizes; while the stream is being read
\* the chunks collected so far are the encodings of the blocks read so far.
C39_ChunksAreBlocks ==
  /\ (syn.pc = "s_read" /\ Len(syn.chunks) <= Len(syn.w.blocks)) =>
       /\ syn.chunks = C39_StreamedEncoding(syn.w.blocks, Len(syn.chunks))
       /\ syn.totalBytes = SumLen(SubSeq(syn.w.blocks, 1, Len(syn.chunks)))
  /\ (syn.pc = "done" /\ syn.sOk = "ok") =>
       /\ syn.result.ok /\ syn.result.isStreaming
       /\ Len(syn.result.chunks) = Len(syn.w.blocks)
       /\ syn.result.chunks =
            C39_StreamedEncoding(syn.w.blocks, Len(syn.w.blocks))
       /\ syn.result.totalBytes = SumLen(syn.w.blocks)

\* C39 witness: a stream of two blocks of different sizes was read to its
\* end and the result was returned.
C39_Witness ==
  /\ syn.pc = "done" /\ syn.sOk = "ok"
  /\ Len(syn.w.blocks) >= 2
  /\ syn.w.blocks[1] # syn.w.blocks[2]
  /\ Len(syn.result.chunks) = Len(syn.w.blocks)


\* The successful tier-2 writes of key id that returned before call j.
C31_Tier2Writes(id, j) ==
  {i \in 1..(j - 1) :
     clog[i].kind = "set" /\ clog[i].id = id /\ clog[i].tier2 = "ok"}

\* C31: whenever getHistory answers from tier-1, the value it returns is
\* the value of the most recent successful tier-2 write for that key, and
\* that write was made within the tier-1 freshness window (the empty
\* history when the key was never written to tier-2).
C31_L1HitIsTier2Write ==
  \A j \in 1..Len(clog) :
    (clog[j].kind = "get" /\ clog[j].l1Hit) =>
      LET writes == C31_Tier2Writes(clog[j].id, j)
      IN IF writes = {}
         THEN clog[j].ret = <<>>
         ELSE LET m == CHOOSE i \in writes : \A k \in writes : k <= i
              IN /\ clog[m].arg = clog[j].ret
                 /\ clog[j].at - clog[m].at < L1_CACHE_TTL


\* The messages of type ty among ms, by position.
C32_OfType(ms, ty) == {i \in 1..Len(ms) : ms[i].type = ty}

C33_Malformed(t) ==
  srv[t].pc = "done" /\ srv[t].conn # NoConn /\ srv[t].twin = ""

C34_OnlyChunksOf(ms, i, j) ==
  \A k \in (i + 1)..(j - 1) :
    ms[k].type = "audio_chunk" /\ ms[k].turn = ms[i].turn

\* C34: on the connection of handleTwinMessage, with two calls in flight,
\* every tts_started is followed by the tts_complete of the same turn with
\* nothing but audio chunks of that turn between them, and every audio
\* chunk lies between the tts_started and the tts_complete of its turn.
C34_NoInterleaving ==
  LET ms == htmSent
  IN \A i \in 1..Len(ms) :
       /\ ms[i].type = "tts_started" =>
            \E j \in (i + 1)..Len(ms) :
              /\ ms[j].type = "tts_complete" /\ ms[j].turn = ms[i].turn
              /\ C34_OnlyChunksOf(ms, i, j)
       /\ ms[i].type = "audio_chunk" =>
            \E a \in 1..(i - 1) :
              /\ ms[a].type = "tts_started" /\ ms[a].turn = ms[i].turn
              /\ C34_OnlyChunksOf(ms, a, i)

\* C34 witness: both calls had sent their text before either synthesis
\* ended, and both results, each with two chunks, have been sent.
C34_Witness ==
  /\ Len(htmSent) >= 10
  /\ htmSent[1].type = "twin_response" /\ htmSent[2].type = "twin_response"
  /\ htmSent[1].turn # htmSent[2].turn
  /\ htmSent[3].type = "tts_started" /\ htmSent[3].turn = htmSent[2].turn
  /\ htmSent[4].type = "audio_chunk" /\ htmSent[5].type = "audio_chunk"
  /\ htmSent[7].type = "tts_started" /\ htmSent[7].turn = htmSent[1].turn
  /\ htmSent[10].type = "tts_complete"


\* Both setHistory calls have returned and the SET of each was executed.
C35_BothStored ==
  \A i \in RaceCalls : sets.call[i].pc = "done" /\ sets.call[i].tier2 = "ok"

\* C35: once two overlapping setHistory calls for one key have both
\* returned, each with its tier-2 write executed, tier-1, tier-2 and the
\* last-resort store hold the same history, one of the two written.
C35_LastWriterWins ==
  C35_BothStored =>
    LET key == cacheKey(RaceId)
        h == l1Cache[key][1].data
    IN /\ h \in {sets.call[i].arg : i \in RaceCalls}
       /\ redisStore[key] = <<JSONStringify(h)>>
       /\ memoryStore[RaceId] = <<h>>


\* C38: the history the message handler builds from the rows getMessages
\* returns is in chronological order, oldest row first.
C38_Chronological ==
  hb.pc = "built" =>
    \A i, j \in 1..Len(hb.currentHistory) :
      i < j => hb.currentHistory[i].at < hb.currentHistory[j].at


\* C37: with two or more workers subscribed to the request channel, a
\* published request is handled, and answered, by one worker only.
C37_OneWorkerPerRequest ==
  \A x, y \in fan.responses :
    x.msg.data.requestId = y.msg.data.requestId => x.worker = y.worker


\* The worker has got past the wait of start().
C36_PastWait == mq.w \in {"subscribing", "running", "stopped"}

C40_FlagTracksConnection ==
  /\ [](mq.isConnected => (mq.pub = "up" /\ mq.sub = "up"))
  /\ [][(/\ mq.pc = "on" /\ mq'.pc = "on"
         /\ \/ mq.pub = "down" /\ mq'.pub = "up"
            \/ mq.sub = "down" /\ mq'.sub = "up"
         /\ mq'.pub = "up" /\ mq'.sub = "up") => mq'.isConnected]_vars

====
